---- MODULE Spec2Model ----
(***************************************************************************)
(* Model of the AMA Orquestador (src/index.js).  The file holds two        *)
(* implementations of the same HTTP service:                               *)
(*   A  lines 1-1663     registry VEHICULOS in memory, ESTADO_CORTE and    *)
(*                       ESTADO_ZONA in memory only;                       *)
(*   B  lines 1665-2716  registry re-read from vehiculos.json on every     *)
(*                       request.                                          *)
(* Node runs one callback at a time: a handler runs without interruption   *)
(* up to its next await on the telemetry provider (Traccar) or on the      *)
(* event sink, so every action below is one such run.  A suspended handler *)
(* lives in enVuelo, the suspended sweep in barrido, and a sweep that the   *)
(* timer starts while the previous one is still suspended in barrido2.     *)
(*                                                                         *)
(* Lengths are integers in decimetres (0.1 m); positions lie on one        *)
(* meridian, so a latitude is an arc length in decimetres and the          *)
(* great-circle distance of two positions is the absolute difference.      *)
(* A nullable string is the string "null"; a nullable record or number is  *)
(* a sequence of length 0 (null) or 1.                                     *)
(***************************************************************************)
EXTENDS Integers, Sequences, FiniteSets, TLC

VARIABLES
  VEHICULOS,     \* A: in-memory registry, insertion-ordered <<[id, v]>>
  ESTADO_CORTE,  \* A: vehiculoId -> "normal" | "cortado"
  ESTADO_ZONA,   \* A: vehiculoId -> "dentro" | "fuera" | "fuera_horario" | "desconocido"
  archivo,       \* contents of vehiculos.json, insertion-ordered <<[id, v]>>
  enVuelo,       \* set of request handlers suspended in an await
  barrido,       \* the periodic sweep: idle or suspended in an await
  barrido2,      \* a sweep started while barrido is still suspended
  ultimoComando, \* the last command the provider accepted, or null
  reloj,         \* wall clock read by new Date().toISOString()
  entorno,       \* process.env and which implementation is deployed; never changes
  salida         \* what the last step sent out: an HTTP response, an event POST, or nothing

vars ==
  <<VEHICULOS, ESTADO_CORTE, ESTADO_ZONA, archivo, enVuelo, barrido, barrido2,
    ultimoComando, reloj, entorno, salida>>

---------------------------------------------------------------------------
(* Bounds *)

MaxEnVuelo == 1    \* request handlers suspended at the same time
MaxReloj == 1      \* clock ticks

---------------------------------------------------------------------------
(* Values *)

Nulo == <<>>
Algo(x) == <<x>>
EsNulo(o) == o = <<>>
Val(o) == o[1]

CORTE_UMBRAL_KMH == 20

\* process.env.ORQ_EVENT_URL || null
ORQ_EVENT_URL == entorno.ORQ_EVENT_URL

---------------------------------------------------------------------------
(* Objects keyed by string: VEHICULOS, the JSON file, ESTADO_CORTE/ZONA *)

RECURSIVE Indice(_, _, _)
Indice(reg, id, i) ==
  IF i > Len(reg) THEN 0
  ELSE IF reg[i].id = id THEN i ELSE Indice(reg, id, i + 1)

\* reg[id] !== undefined
Existe(reg, id) == Indice(reg, id, 1) # 0

\* reg[id]
Obtener(reg, id) == reg[Indice(reg, id, 1)].v

\* reg[id] = v : replaces in place, or appends a new key
Poner(reg, id, v) ==
  IF Existe(reg, id)
    THEN [reg EXCEPT ![Indice(reg, id, 1)] = [id |-> id, v |-> v]]
    ELSE Append(reg, [id |-> id, v |-> v])

\* Object.keys(reg)
Claves(reg) == [i \in 1..Len(reg) |-> reg[i].id]

\* obj[id] = val on a plain object used as a map
Asignar(obj, id, val) ==
  [k \in DOMAIN obj \cup {id} |-> IF k = id THEN val ELSE obj[k]]

\* obj[id], "undefined" when the key is missing
Leer(obj, id) == IF id \in DOMAIN obj THEN obj[id] ELSE "undefined"

\* ESTADO_ZONA[vehiculoId] || 'desconocido'
EstadoZonaDe(ez, id) ==
  IF Leer(ez, id) = "undefined" THEN "desconocido" ELSE Leer(ez, id)

---------------------------------------------------------------------------
(* Helpers varios *)

Abs(n) == IF n < 0 THEN 0 - n ELSE n

\* Great-circle distance.  Every modelled position has longitude 0, where the
\* haversine formula reduces to R * |dLat|: the arc between the latitudes.
distanciaMetros(lat1, lon1, lat2, lon2) == Abs(lat2 - lat1)

\* s.split(':') for the time strings of the model
Split(s) ==
  CASE s = "08:00" -> <<"08", "00">>
    [] s = "18:00" -> <<"18", "00">>
    [] s = "22:00" -> <<"22", "00">>
    [] s = "06:00" -> <<"06", "00">>
    [] s = "8" -> <<"8">>
    [] OTHER -> <<s>>

\* Number(t): Nulo stands for NaN
Number(t) ==
  CASE t = "00" -> Algo(0)
    [] t = "06" -> Algo(6)
    [] t = "08" -> Algo(8)
    [] t = "8" -> Algo(8)
    [] t = "18" -> Algo(18)
    [] t = "22" -> Algo(22)
    [] OTHER -> Nulo

\* const [h, m] = s.split(':').map(Number); h * 60 + m  (NaN when a part is
\* NaN or missing)
MinutosDe(s) ==
  LET partes == Split(s)
      h == Number(partes[1])
      m == IF Len(partes) >= 2 THEN Number(partes[2]) ELSE Nulo
  IN IF EsNulo(h) \/ EsNulo(m) THEN Nulo ELSE Algo(Val(h) * 60 + Val(m))

\* variant in which the end of the window is excluded
horaDentroDeVentana_finExcluido(horaInicio, horaFin, dtLocal) ==
  IF horaInicio \in {"", "null"} \/ horaFin \in {"", "null"} THEN TRUE
  ELSE
    LET minutosActual == dtLocal.hour * 60 + dtLocal.minute
        minutosIni == MinutosDe(horaInicio)
        minutosFin == MinutosDe(horaFin)
    IN IF EsNulo(minutosIni) \/ EsNulo(minutosFin) THEN TRUE
       ELSE IF Val(minutosIni) <= Val(minutosFin)
         THEN minutosActual >= Val(minutosIni) /\ minutosActual < Val(minutosFin)
         ELSE minutosActual >= Val(minutosIni) \/ minutosActual < Val(minutosFin)

horaDentroDeVentana(horaInicio, horaFin, dtLocal) ==
  IF horaInicio \in {"", "null"} \/ horaFin \in {"", "null"} THEN TRUE
  ELSE
    LET minutosActual == dtLocal.hour * 60 + dtLocal.minute
        minutosIni == MinutosDe(horaInicio)
        minutosFin == MinutosDe(horaFin)
    IN IF EsNulo(minutosIni) \/ EsNulo(minutosFin) THEN TRUE
       ELSE IF Val(minutosIni) <= Val(minutosFin)
         THEN minutosActual >= Val(minutosIni) /\ minutosActual <= Val(minutosFin)
         ELSE minutosActual >= Val(minutosIni) \/ minutosActual <= Val(minutosFin)

\* luxon weekday: 1 = Monday .. 7 = Sunday
codigoDiaSemanaMx(dtLocal) ==
  LET dias == <<"DO", "LU", "MA", "MI", "JU", "VI", "SA">>
      idx == dtLocal.weekday % 7
  IN dias[idx + 1]

\* array.includes(x)
Includes(arr, x) == \E i \in 1..Len(arr) : arr[i] = x

\* knots * 1.852, in thousandths of a km/h; null when speed is not a number
knotsToKmh(knots) == IF EsNulo(knots) THEN Nulo ELSE Algo(Val(knots) * 1852)

---------------------------------------------------------------------------
(* Telemetry provider (Traccar) outcomes *)

\* latitudes at which the provider can report a vehicle
Latitudes == {0, 600}

\* position.speed in knots, or null
Velocidades == {Nulo, Algo(15)}

\* latitudes around the internal radius of a zone of limite_m 20 centred at 0:
\* inside the 10 m band, on the radius, just beyond it
LatitudesBorde == {250, 300, 301}

Posiciones ==
  [latitude : Latitudes \cup LatitudesBorde, longitude : {0}, speed : Velocidades]

\* getDeviceAndPositionByUniqueId(uniqueId): throws, or { device, position }
\* with position possibly null
ResultadosPosicion(lats) ==
  {[error |-> TRUE, position |-> Nulo], [error |-> FALSE, position |-> Nulo]}
    \cup {[error |-> FALSE, position |-> Algo(p)] :
            p \in {q \in Posiciones : q.latitude \in lats}}

\* sendCommandToDevice(uniqueId, type): throws, or { device, command }
ComandoIds == {7, 8}

ResultadosComando(uniqueId) ==
  {[error |-> TRUE, command |-> Nulo]}
    \cup (IF uniqueId = "null" THEN {}
          ELSE {[error |-> FALSE, command |-> Algo([id |-> c])] : c \in ComandoIds})

\* crearOActualizarDeviceEnTraccar(uniqueId, name): throws, or the device
ResultadosDevice == {[error |-> TRUE], [error |-> FALSE]}

---------------------------------------------------------------------------
(* Outputs of a step *)

Nada == [tipo |-> "nada"]

Res(ruta, vehiculoId, status, cuerpo) ==
  [tipo |-> "res", ruta |-> ruta, vehiculoId |-> vehiculoId,
   status |-> status, cuerpo |-> cuerpo]

---------------------------------------------------------------------------
(* Persistence *)

\* A: guardarVehiculos() writes VEHICULOS to the file
guardarVehiculos(vehiculos) == vehiculos

BarridoIdle == [pc |-> "idle"]

\* ZONA_SEGURA_INTERVALO_SEGUNDOS is the result of parseInt(.., 10): Nulo for
\* NaN, else the number
Entornos ==
  [impl : {"A", "B"}, ORQ_EVENT_URL : {"null", "http://orq"},
   ZONA_SEGURA_INTERVALO_SEGUNDOS : {Nulo, Algo(0), Algo(60)}]

\* The process after start-up with no vehiculos.json
Arranque(env) ==
  /\ entorno = env
  /\ VEHICULOS = <<>>
  /\ ESTADO_CORTE = <<>>
  /\ ESTADO_ZONA = <<>>
  /\ archivo = <<>>
  /\ enVuelo = {}
  /\ barrido = BarridoIdle
  /\ barrido2 = BarridoIdle
  /\ ultimoComando = Nulo
  /\ reloj = 0
  /\ salida = Nada

\* time passes
Tic ==
  /\ reloj < MaxReloj
  /\ reloj' = reloj + 1
  /\ salida' = Nada
  /\ UNCHANGED <<VEHICULOS, ESTADO_CORTE, ESTADO_ZONA, archivo, enVuelo, barrido, barrido2,
                 ultimoComando, entorno>>

EsA == entorno.impl = "A"
EsB == entorno.impl = "B"

\* a handler may start only while fewer than MaxEnVuelo are suspended
HayLugar == Cardinality(enVuelo) < MaxEnVuelo

---------------------------------------------------------------------------
(* Implementation A: request handlers *)

Otros == <<barrido, barrido2, ultimoComando, reloj, entorno>>

\* a response sent before the handler changed or awaited anything
Rechazo(ruta, vehiculoId, status, cuerpo) ==
  /\ salida' = Res(ruta, vehiculoId, status, cuerpo)
  /\ UNCHANGED <<VEHICULOS, ESTADO_CORTE, ESTADO_ZONA, archivo, enVuelo>>

\* the handler reaches an await
Suspender(r) ==
  /\ HayLugar
  /\ enVuelo' = enVuelo \cup {r}
  /\ salida' = Nada

\* String(n).padStart(3, '0')
PadStart3(n) ==
  IF n < 10 THEN "00" \o ToString(n)
  ELSE IF n < 100 THEN "0" \o ToString(n) ELSE ToString(n)

RECURSIVE MaxNumeroUnidad(_, _, _)
\* vehiculosContrato.reduce(max numeroUnidad, 1)
MaxNumeroUnidad(reg, contratoId, i) ==
  IF i > Len(reg) THEN 1
  ELSE LET resto == MaxNumeroUnidad(reg, contratoId, i + 1)
       IN IF reg[i].v.contratoId = contratoId /\ reg[i].v.numeroUnidad > resto
            THEN reg[i].v.numeroUnidad ELSE resto

\* POST /api/vehiculos, up to the await on crearOActualizarDeviceEnTraccar
PostVehiculos(body) ==
  LET ruta == "vehiculos"
      vehiculosContrato ==
        {i \in 1..Len(VEHICULOS) : VEHICULOS[i].v.contratoId = body.contratoId}
      numeroUnidad ==
        IF vehiculosContrato = {} THEN 1
        ELSE MaxNumeroUnidad(VEHICULOS, body.contratoId, 1) + 1
      vehiculoId ==
        IF vehiculosContrato = {}
          THEN IF body.tipoCliente = "individual" THEN body.contratoId
               ELSE body.contratoId \o "-001"
          ELSE body.contratoId \o "-" \o PadStart3(numeroUnidad)
  IN
  /\ EsA
  /\ UNCHANGED Otros
  /\ IF body.contratoId = "" \/ body.tipoCliente = "" \/ body.nombreTitular = ""
          \/ body.uniqueId = ""
       THEN Rechazo(ruta, "", 400, [error |-> "faltan campos"])
     ELSE IF body.tipoCliente \notin {"individual", "empresa"}
       THEN Rechazo(ruta, "", 400, [error |-> "tipoCliente"])
     ELSE IF \E i \in 1..Len(VEHICULOS) : VEHICULOS[i].v.uniqueId = body.uniqueId
       THEN Rechazo(ruta, "", 409, [error |-> "uniqueId asignado"])
     ELSE IF Existe(VEHICULOS, vehiculoId)
       THEN Rechazo(ruta, vehiculoId, 409, [error |-> "ya existe"])
     ELSE /\ Suspender([ruta |-> ruta, pc |-> "device", vehiculoId |-> vehiculoId,
                        body |-> body, loc |-> [numeroUnidad |-> numeroUnidad]])
          /\ UNCHANGED <<VEHICULOS, ESTADO_CORTE, ESTADO_ZONA, archivo>>

\* POST /api/vehiculos, after the await
PostVehiculos_device(r, dev) ==
  /\ EsA
  /\ r \in enVuelo /\ r.ruta = "vehiculos" /\ r.pc = "device"
  /\ enVuelo' = enVuelo \ {r}
  /\ UNCHANGED Otros
  /\ IF dev.error
       THEN /\ salida' = Res(r.ruta, r.vehiculoId, 500, [error |-> "No se pudo registrar"])
            /\ UNCHANGED <<VEHICULOS, ESTADO_CORTE, ESTADO_ZONA, archivo>>
       ELSE LET nuevo == [contratoId |-> r.body.contratoId,
                          tipoCliente |-> r.body.tipoCliente,
                          numeroUnidad |-> r.loc.numeroUnidad,
                          uniqueId |-> r.body.uniqueId,
                          activo |-> TRUE,
                          motivoInactivacion |-> "null",
                          zonaSegura |-> Nulo,
                          modoSiniestro |-> FALSE,
                          siniestro |-> Nulo]
            IN /\ VEHICULOS' = Poner(VEHICULOS, r.vehiculoId, nuevo)
               /\ ESTADO_CORTE' = Asignar(ESTADO_CORTE, r.vehiculoId, "normal")
               /\ ESTADO_ZONA' = Asignar(ESTADO_ZONA, r.vehiculoId, "desconocido")
               /\ archivo' = guardarVehiculos(VEHICULOS')
               /\ salida' = Res(r.ruta, r.vehiculoId, 200, [ok |-> TRUE])

\* variant of inactivar that also resets the geofence state of the vehicle
PostInactivar_reinicia(vehiculoId, motivo) ==
  LET ruta == "inactivar" IN
  /\ EsA
  /\ UNCHANGED Otros
  /\ IF ~Existe(VEHICULOS, vehiculoId)
       THEN Rechazo(ruta, vehiculoId, 404, [error |-> "no configurado"])
     ELSE IF motivo \notin {"impago", "cancelacion"}
       THEN Rechazo(ruta, vehiculoId, 400, [error |-> "motivo"])
     ELSE LET config == Obtener(VEHICULOS, vehiculoId) IN
          /\ VEHICULOS' = Poner(VEHICULOS, vehiculoId,
                                [config EXCEPT !.activo = FALSE,
                                               !.motivoInactivacion = motivo])
          /\ archivo' = guardarVehiculos(VEHICULOS')
          /\ ESTADO_ZONA' = Asignar(ESTADO_ZONA, vehiculoId, "desconocido")
          /\ salida' = Res(ruta, vehiculoId, 200,
                           [ok |-> TRUE, yaEstabaInactivo |-> ~config.activo])
          /\ UNCHANGED <<ESTADO_CORTE, enVuelo>>

\* POST /api/vehiculos/:vehiculoId/inactivar
PostInactivar(vehiculoId, motivo) ==
  LET ruta == "inactivar" IN
  /\ EsA
  /\ UNCHANGED Otros
  /\ IF ~Existe(VEHICULOS, vehiculoId)
       THEN Rechazo(ruta, vehiculoId, 404, [error |-> "no configurado"])
     ELSE IF motivo \notin {"impago", "cancelacion"}
       THEN Rechazo(ruta, vehiculoId, 400, [error |-> "motivo"])
     ELSE LET config == Obtener(VEHICULOS, vehiculoId) IN
          /\ VEHICULOS' = Poner(VEHICULOS, vehiculoId,
                                [config EXCEPT !.activo = FALSE,
                                               !.motivoInactivacion = motivo])
          /\ archivo' = guardarVehiculos(VEHICULOS')
          /\ salida' = Res(ruta, vehiculoId, 200,
                           [ok |-> TRUE, yaEstabaInactivo |-> ~config.activo])
          /\ UNCHANGED <<ESTADO_CORTE, ESTADO_ZONA, enVuelo>>

\* POST /api/vehiculos/:vehiculoId/reactivar
PostReactivar(vehiculoId) ==
  LET ruta == "reactivar" IN
  /\ EsA
  /\ UNCHANGED Otros
  /\ IF ~Existe(VEHICULOS, vehiculoId)
       THEN Rechazo(ruta, vehiculoId, 404, [error |-> "no configurado"])
     ELSE LET config == Obtener(VEHICULOS, vehiculoId) IN
       IF config.uniqueId = "null"
         THEN Rechazo(ruta, vehiculoId, 409, [error |-> "sin uniqueId"])
       ELSE IF config.activo
         THEN Rechazo(ruta, vehiculoId, 200, [ok |-> FALSE])
       ELSE /\ VEHICULOS' = Poner(VEHICULOS, vehiculoId,
                                  [config EXCEPT !.activo = TRUE,
                                                 !.motivoInactivacion = "null"])
            /\ archivo' = guardarVehiculos(VEHICULOS')
            /\ salida' = Res(ruta, vehiculoId, 200, [ok |-> TRUE])
            /\ UNCHANGED <<ESTADO_CORTE, ESTADO_ZONA, enVuelo>>

\* the guards without the check of config.activo
Precondicion_sinActivo(vehiculoId) ==
  IF ~Existe(VEHICULOS, vehiculoId) THEN 404
  ELSE IF Obtener(VEHICULOS, vehiculoId).uniqueId = "null" THEN 409
  ELSE 0

\* the guards shared by ubicacion, corte, reanudar and zona-segura: the
\* vehicle exists, is active and has a device
Precondicion(vehiculoId) ==
  IF ~Existe(VEHICULOS, vehiculoId) THEN 404
  ELSE IF ~Obtener(VEHICULOS, vehiculoId).activo THEN 409
  ELSE IF Obtener(VEHICULOS, vehiculoId).uniqueId = "null" THEN 409
  ELSE 0

ErrorPrecondicion(vehiculoId) ==
  IF ~Existe(VEHICULOS, vehiculoId) THEN [error |-> "no configurado"]
  ELSE IF ~Obtener(VEHICULOS, vehiculoId).activo THEN [error |-> "inactivo"]
  ELSE [error |-> "sin uniqueId"]

EnEspera(ruta, pc, vehiculoId, body, loc) ==
  [ruta |-> ruta, pc |-> pc, vehiculoId |-> vehiculoId, body |-> body, loc |-> loc]

\* a suspended handler resumes
Reanuda(r, ruta, pc) ==
  /\ r \in enVuelo /\ r.ruta = ruta /\ r.pc = pc
  /\ UNCHANGED Otros

\* a handler suspended in sendCommandToDevice(uniqueId, type) resumes: the
\* provider accepted the command and answered with it, or the call threw
ReanudaComando(r, ruta, type, cmd) ==
  /\ r \in enVuelo /\ r.ruta = ruta /\ r.pc = "comando"
  /\ cmd \in ResultadosComando(r.loc.uniqueId)
  /\ ultimoComando' = IF cmd.error THEN ultimoComando
                      ELSE Algo([type |-> type, id |-> Val(cmd.command).id])
  /\ UNCHANGED <<barrido, barrido2, reloj, entorno>>

\* the resumed handler responds
Termina(r, status, cuerpo) ==
  /\ enVuelo' = enVuelo \ {r}
  /\ salida' = Res(r.ruta, r.vehiculoId, status, cuerpo)

\* the resumed handler reaches its next await
Sigue(r, pc, loc) ==
  /\ enVuelo' = (enVuelo \ {r}) \cup {[r EXCEPT !.pc = pc, !.loc = loc]}
  /\ salida' = Nada

SinCambio == UNCHANGED <<VEHICULOS, ESTADO_CORTE, ESTADO_ZONA, archivo>>

\* the uniqueId a resumed handler reads from its config object
UniqueIdDe(vehiculoId) == Obtener(VEHICULOS, vehiculoId).uniqueId

\* GET /api/vehiculos/:vehiculoId/ubicacion, up to the await
GetUbicacion(vehiculoId) ==
  /\ EsA
  /\ UNCHANGED Otros
  /\ IF Precondicion(vehiculoId) # 0
       THEN Rechazo("ubicacion", vehiculoId, Precondicion(vehiculoId),
                    ErrorPrecondicion(vehiculoId))
       ELSE /\ Suspender(EnEspera("ubicacion", "posicion", vehiculoId, <<>>, <<>>))
            /\ SinCambio

GetUbicacion_posicion(r, pos) ==
  /\ EsA /\ Reanuda(r, "ubicacion", "posicion")
  /\ SinCambio
  /\ IF pos.error
       THEN Termina(r, 500, [error |-> "Error consultando Traccar"])
       ELSE Termina(r, 200,
                    [lat |-> IF EsNulo(pos.position) THEN Nulo
                             ELSE Algo(Val(pos.position).latitude)])

\* POST /api/vehiculos/:vehiculoId/modificar-uniqueId, up to the await on
\* crearOActualizarDeviceEnTraccar
PostModificarUniqueId(vehiculoId, nuevoUniqueId) ==
  LET ruta == "modificar-uniqueId" IN
  /\ EsA
  /\ UNCHANGED Otros
  /\ IF ~Existe(VEHICULOS, vehiculoId)
       THEN Rechazo(ruta, vehiculoId, 404, [error |-> "no configurado"])
     ELSE IF nuevoUniqueId = ""
       THEN Rechazo(ruta, vehiculoId, 400, [error |-> "nuevoUniqueId"])
     ELSE IF UniqueIdDe(vehiculoId) = "null"
       THEN Rechazo(ruta, vehiculoId, 409, [error |-> "sin uniqueId"])
     ELSE IF \E i \in 1..Len(VEHICULOS) :
               VEHICULOS[i].v.uniqueId = nuevoUniqueId /\ VEHICULOS[i].id # vehiculoId
       THEN Rechazo(ruta, vehiculoId, 409, [error |-> "uniqueId asignado"])
     ELSE /\ Suspender(EnEspera(ruta, "device", vehiculoId,
                                [nuevoUniqueId |-> nuevoUniqueId], <<>>))
          /\ SinCambio

\* modificar-uniqueId, after the await: the provider call threw, or
\* config.uniqueId is replaced and the registry saved
PostModificarUniqueId_device(r, dev) ==
  /\ EsA /\ Reanuda(r, "modificar-uniqueId", "device")
  /\ IF dev.error
       THEN /\ Termina(r, 500, [error |-> "No se pudo modificar el uniqueId"])
            /\ SinCambio
       ELSE LET config == Obtener(VEHICULOS, r.vehiculoId) IN
            /\ VEHICULOS' = Poner(VEHICULOS, r.vehiculoId,
                                  [config EXCEPT !.uniqueId = r.body.nuevoUniqueId])
            /\ archivo' = guardarVehiculos(VEHICULOS')
            /\ Termina(r, 200, [ok |-> TRUE,
                                uniqueIdAnterior |-> config.uniqueId,
                                nuevoUniqueId |-> r.body.nuevoUniqueId])
            /\ UNCHANGED <<ESTADO_CORTE, ESTADO_ZONA>>

\* variant of liberar-dispositivo that also releases the device of an active vehicle
PostLiberarDispositivo_activo(vehiculoId) ==
  LET ruta == "liberar-dispositivo" IN
  /\ EsA
  /\ UNCHANGED Otros
  /\ IF ~Existe(VEHICULOS, vehiculoId)
       THEN Rechazo(ruta, vehiculoId, 404, [error |-> "no configurado"])
     ELSE LET config == Obtener(VEHICULOS, vehiculoId) IN
       IF config.uniqueId = "null"
         THEN Rechazo(ruta, vehiculoId, 409, [error |-> "sin uniqueId"])
       ELSE /\ VEHICULOS' = Poner(VEHICULOS, vehiculoId, [config EXCEPT !.uniqueId = "null"])
            /\ archivo' = guardarVehiculos(VEHICULOS')
            /\ salida' = Res(ruta, vehiculoId, 200,
                             [ok |-> TRUE, uniqueIdLiberado |-> config.uniqueId])
            /\ UNCHANGED <<ESTADO_CORTE, ESTADO_ZONA, enVuelo>>

\* POST /api/vehiculos/:vehiculoId/liberar-dispositivo
PostLiberarDispositivo(vehiculoId) ==
  LET ruta == "liberar-dispositivo" IN
  /\ EsA
  /\ UNCHANGED Otros
  /\ IF ~Existe(VEHICULOS, vehiculoId)
       THEN Rechazo(ruta, vehiculoId, 404, [error |-> "no configurado"])
     ELSE LET config == Obtener(VEHICULOS, vehiculoId) IN
       IF config.activo
         THEN Rechazo(ruta, vehiculoId, 409, [error |-> "activo"])
       ELSE IF config.uniqueId = "null"
         THEN Rechazo(ruta, vehiculoId, 409, [error |-> "sin uniqueId"])
       ELSE /\ VEHICULOS' = Poner(VEHICULOS, vehiculoId, [config EXCEPT !.uniqueId = "null"])
            /\ archivo' = guardarVehiculos(VEHICULOS')
            /\ salida' = Res(ruta, vehiculoId, 200,
                             [ok |-> TRUE, uniqueIdLiberado |-> config.uniqueId])
            /\ UNCHANGED <<ESTADO_CORTE, ESTADO_ZONA, enVuelo>>

\* POST /api/vehiculos/:vehiculoId/corte, up to the await on the speed lookup
PostCorte(vehiculoId) ==
  /\ EsA
  /\ UNCHANGED Otros
  /\ IF Precondicion(vehiculoId) # 0
       THEN Rechazo("corte", vehiculoId, Precondicion(vehiculoId),
                    ErrorPrecondicion(vehiculoId))
       ELSE /\ Suspender(EnEspera("corte", "velocidad", vehiculoId, <<>>, <<>>))
            /\ SinCambio

\* corte: the speed lookup returned or threw; sendCommandToDevice is called
PostCorte_velocidad(r, pos) ==
  LET velocidadKmh ==
        IF ~pos.error /\ ~EsNulo(pos.position)
          THEN knotsToKmh(Val(pos.position).speed) ELSE Nulo
  IN /\ EsA /\ Reanuda(r, "corte", "velocidad")
     /\ SinCambio
     /\ Sigue(r, "comando", [velocidadKmh |-> velocidadKmh,
                             uniqueId |-> UniqueIdDe(r.vehiculoId)])

\* variant of corte that records the cut also when the command failed
PostCorte_comando_optimista(r, cmd) ==
  /\ EsA /\ ReanudaComando(r, "corte", "engineStop", cmd)
  /\ ESTADO_CORTE' = Asignar(ESTADO_CORTE, r.vehiculoId, "cortado")
  /\ UNCHANGED <<VEHICULOS, ESTADO_ZONA, archivo>>
  /\ IF cmd.error
       THEN Termina(r, 500, [error |-> "No se pudo enviar el comando de corte"])
       ELSE Termina(r, 200, [resultado |-> "confirmado",
                             comandoId |-> Val(cmd.command).id,
                             estado_corte |-> "cortado",
                             velocidad_kmh |-> r.loc.velocidadKmh,
                             corte_puede_demorar |-> FALSE])

\* corte: the command was sent or failed
PostCorte_comando(r, cmd) ==
  /\ EsA /\ ReanudaComando(r, "corte", "engineStop", cmd)
  /\ IF cmd.error
       THEN /\ Termina(r, 500, [error |-> "No se pudo enviar el comando de corte"])
            /\ SinCambio
       ELSE LET superaUmbral ==
                  ~EsNulo(r.loc.velocidadKmh)
                    /\ Val(r.loc.velocidadKmh) > CORTE_UMBRAL_KMH * 1000
            IN /\ ESTADO_CORTE' = Asignar(ESTADO_CORTE, r.vehiculoId, "cortado")
               /\ Termina(r, 200, [resultado |-> "confirmado",
                                   comandoId |-> Val(cmd.command).id,
                                   estado_corte |-> "cortado",
                                   velocidad_kmh |-> r.loc.velocidadKmh,
                                   corte_puede_demorar |-> superaUmbral])
               /\ UNCHANGED <<VEHICULOS, ESTADO_ZONA, archivo>>

\* POST /api/vehiculos/:vehiculoId/reanudar, up to the await on the command
PostReanudar(vehiculoId) ==
  /\ EsA
  /\ UNCHANGED Otros
  /\ IF Precondicion(vehiculoId) # 0
       THEN Rechazo("reanudar", vehiculoId, Precondicion(vehiculoId),
                    ErrorPrecondicion(vehiculoId))
       ELSE /\ Suspender(EnEspera("reanudar", "comando", vehiculoId, <<>>,
                                  [uniqueId |-> UniqueIdDe(vehiculoId)]))
            /\ SinCambio

\* reanudar that records 'normal' before the command's outcome is known
PostReanudar_comando_optimista(r, cmd) ==
  /\ EsA /\ ReanudaComando(r, "reanudar", "engineResume", cmd)
  /\ ESTADO_CORTE' = Asignar(ESTADO_CORTE, r.vehiculoId, "normal")
  /\ UNCHANGED <<VEHICULOS, ESTADO_ZONA, archivo>>
  /\ IF cmd.error
       THEN Termina(r, 500, [error |-> "No se pudo enviar el comando de reanudacion"])
       ELSE Termina(r, 200, [resultado |-> "confirmado",
                             comandoId |-> Val(cmd.command).id,
                             estado_corte |-> "normal"])

\* reanudar that answers without recording the new cutoff state
PostReanudar_comando_sinEstado(r, cmd) ==
  /\ EsA /\ ReanudaComando(r, "reanudar", "engineResume", cmd)
  /\ SinCambio
  /\ IF cmd.error
       THEN Termina(r, 500, [error |-> "No se pudo enviar el comando de reanudacion"])
       ELSE Termina(r, 200, [resultado |-> "confirmado",
                             comandoId |-> Val(cmd.command).id,
                             estado_corte |-> "normal"])

\* reanudar: the command was sent or failed
PostReanudar_comando(r, cmd) ==
  /\ EsA /\ ReanudaComando(r, "reanudar", "engineResume", cmd)
  /\ IF cmd.error
       THEN /\ Termina(r, 500, [error |-> "No se pudo enviar el comando de reanudacion"])
            /\ SinCambio
       ELSE /\ ESTADO_CORTE' = Asignar(ESTADO_CORTE, r.vehiculoId, "normal")
            /\ Termina(r, 200, [resultado |-> "confirmado",
                                comandoId |-> Val(cmd.command).id,
                                estado_corte |-> "normal"])
            /\ UNCHANGED <<VEHICULOS, ESTADO_ZONA, archivo>>

---------------------------------------------------------------------------
(* Implementation A: Zona Segura *)

LIMITE_MIN == 200     \* 20 m
LIMITE_MAX == 400     \* 40 m
MARGEN_INTERNO == 100 \* 10 m

diasValidos == {"LU", "MA", "MI", "JU", "VI", "SA", "DO"}

\* the first failing validation of the zona-segura body, "" when it is valid
ValidacionZona(body) ==
  IF body.nombre = "" THEN "nombre"
  ELSE IF body.limite_m.tipo # "number" THEN "limite_m numero"
  ELSE IF body.limite_m.dm < LIMITE_MIN \/ body.limite_m.dm > LIMITE_MAX
    THEN "limite_m rango"
  ELSE IF Len(body.diasAccion) = 0 THEN "diasAccion vacio"
  ELSE IF \E i \in 1..Len(body.diasAccion) : body.diasAccion[i] \notin diasValidos
    THEN "diasAccion invalidos"
  ELSE IF body.horaInicio = "" THEN "horaInicio"
  ELSE IF body.horaFin = "" THEN "horaFin"
  ELSE IF EsNulo(body.activo) THEN "activo"
  ELSE ""

\* the zone built from the body and the fetched position
NuevaZona(body, position) ==
  LET radioCliente == body.limite_m.dm
      radioInterno == radioCliente + MARGEN_INTERNO
  IN [nombre |-> body.nombre,
      centro |-> [lat |-> position.latitude, lon |-> position.longitude],
      radio_cliente_m |-> radioCliente,
      radio_interno_m |-> radioInterno,
      diasSemana |-> body.diasAccion,
      horaInicio |-> body.horaInicio,
      horaFin |-> body.horaFin,
      activo |-> Val(body.activo)]

\* variant that forgets the reset
ReiniciarEstadoZona_olvidado(ez, vehiculoId) == ez

\* ESTADO_ZONA[vehiculoId] = 'desconocido'
ReiniciarEstadoZona(ez, vehiculoId) == Asignar(ez, vehiculoId, "desconocido")

\* variant that never asks for confirmation
ZonaActivaYa_nunca(config) == FALSE

\* zonaActual && zonaActual.activo === true
ZonaActivaYa(config) == ~EsNulo(config.zonaSegura) /\ Val(config.zonaSegura).activo

\* POST /api/vehiculos/:vehiculoId/zona-segura, up to the await on the position
PostZonaSegura(vehiculoId, body) ==
  LET ruta == "zona-segura" IN
  /\ EsA
  /\ UNCHANGED Otros
  /\ IF Precondicion(vehiculoId) # 0
       THEN Rechazo(ruta, vehiculoId, Precondicion(vehiculoId),
                    ErrorPrecondicion(vehiculoId))
     ELSE IF ValidacionZona(body) # ""
       THEN Rechazo(ruta, vehiculoId, 400, [error |-> ValidacionZona(body)])
     ELSE LET config == Obtener(VEHICULOS, vehiculoId)
              zonaActual == Val(config.zonaSegura)
          IN IF ZonaActivaYa(config) /\ ~body.forzarSobreEscritura
               THEN Rechazo(ruta, vehiculoId, 200,
                            [ok |-> FALSE,
                             requiere_confirmacion |-> TRUE,
                             zona_actual |->
                               [nombre |-> zonaActual.nombre,
                                radio_cliente_m |-> zonaActual.radio_cliente_m,
                                diasSemana |-> zonaActual.diasSemana,
                                horaInicio |-> zonaActual.horaInicio,
                                horaFin |-> zonaActual.horaFin,
                                activo |-> zonaActual.activo]])
               ELSE /\ Suspender(EnEspera(ruta, "posicion", vehiculoId, body,
                                          [zonaActivaYa |-> ZonaActivaYa(config)]))
                    /\ SinCambio

\* zona-segura: the position lookup returned or threw
\* variant that resets the geofence state before it reports the failed lookup
PostZonaSegura_posicion_reinicia(r, pos) ==
  /\ EsA /\ Reanuda(r, "zona-segura", "posicion")
  /\ IF pos.error \/ EsNulo(pos.position)
       THEN /\ Termina(r, 500, [error |-> "Error consultando posicion"])
            /\ ESTADO_ZONA' = ReiniciarEstadoZona(ESTADO_ZONA, r.vehiculoId)
            /\ UNCHANGED <<VEHICULOS, ESTADO_CORTE, archivo>>
     ELSE LET config == Obtener(VEHICULOS, r.vehiculoId)
              nuevaZona == NuevaZona(r.body, Val(pos.position))
          IN /\ VEHICULOS' = Poner(VEHICULOS, r.vehiculoId,
                                   [config EXCEPT !.zonaSegura = Algo(nuevaZona)])
             /\ archivo' = guardarVehiculos(VEHICULOS')
             /\ ESTADO_ZONA' = ReiniciarEstadoZona(ESTADO_ZONA, r.vehiculoId)
             /\ Termina(r, 200, [ok |-> TRUE, zonaSegura |-> nuevaZona,
                                 yaExistiaActiva |-> r.loc.zonaActivaYa])
             /\ UNCHANGED ESTADO_CORTE

PostZonaSegura_posicion(r, pos) ==
  /\ EsA /\ Reanuda(r, "zona-segura", "posicion")
  /\ IF pos.error
       THEN Termina(r, 500, [error |-> "Error consultando posicion"]) /\ SinCambio
     ELSE IF EsNulo(pos.position)
       THEN Termina(r, 500, [error |-> "No se encontro posicion"]) /\ SinCambio
     ELSE LET config == Obtener(VEHICULOS, r.vehiculoId)
              nuevaZona == NuevaZona(r.body, Val(pos.position))
          IN /\ VEHICULOS' = Poner(VEHICULOS, r.vehiculoId,
                                   [config EXCEPT !.zonaSegura = Algo(nuevaZona)])
             /\ archivo' = guardarVehiculos(VEHICULOS')
             /\ ESTADO_ZONA' = ReiniciarEstadoZona(ESTADO_ZONA, r.vehiculoId)
             /\ Termina(r, 200, [ok |-> TRUE, zonaSegura |-> nuevaZona,
                                 yaExistiaActiva |-> r.loc.zonaActivaYa])
             /\ UNCHANGED ESTADO_CORTE

\* POST /api/vehiculos/:vehiculoId/zona-segura/desactivar
\* variant that rejects the request when the zone is already disabled
PostZonaSeguraDesactivar_rechaza(vehiculoId) ==
  LET ruta == "zona-segura/desactivar" IN
  /\ EsA
  /\ UNCHANGED Otros
  /\ IF ~Existe(VEHICULOS, vehiculoId)
       THEN Rechazo(ruta, vehiculoId, 404, [error |-> "no configurado"])
     ELSE LET config == Obtener(VEHICULOS, vehiculoId) IN
       IF EsNulo(config.zonaSegura)
         THEN Rechazo(ruta, vehiculoId, 200, [ok |-> FALSE, mensaje |-> "sin zona"])
       ELSE IF ~Val(config.zonaSegura).activo
         THEN Rechazo(ruta, vehiculoId, 409, [ok |-> FALSE, mensaje |-> "ya desactivada"])
       ELSE /\ VEHICULOS' = Poner(VEHICULOS, vehiculoId,
                 [config EXCEPT !.zonaSegura =
                    Algo([Val(config.zonaSegura) EXCEPT !.activo = FALSE])])
            /\ archivo' = guardarVehiculos(VEHICULOS')
            /\ ESTADO_ZONA' = ReiniciarEstadoZona(ESTADO_ZONA, vehiculoId)
            /\ salida' = Res(ruta, vehiculoId, 200, [ok |-> TRUE, mensaje |-> "desactivada"])
            /\ UNCHANGED <<ESTADO_CORTE, enVuelo>>

PostZonaSeguraDesactivar(vehiculoId) ==
  LET ruta == "zona-segura/desactivar" IN
  /\ EsA
  /\ UNCHANGED Otros
  /\ IF ~Existe(VEHICULOS, vehiculoId)
       THEN Rechazo(ruta, vehiculoId, 404, [error |-> "no configurado"])
     ELSE LET config == Obtener(VEHICULOS, vehiculoId) IN
       IF EsNulo(config.zonaSegura)
         THEN Rechazo(ruta, vehiculoId, 200, [ok |-> FALSE, mensaje |-> "sin zona"])
       ELSE IF ~Val(config.zonaSegura).activo
         THEN Rechazo(ruta, vehiculoId, 200, [ok |-> FALSE, mensaje |-> "ya desactivada"])
       ELSE /\ VEHICULOS' = Poner(VEHICULOS, vehiculoId,
                 [config EXCEPT !.zonaSegura =
                    Algo([Val(config.zonaSegura) EXCEPT !.activo = FALSE])])
            /\ archivo' = guardarVehiculos(VEHICULOS')
            /\ ESTADO_ZONA' = ReiniciarEstadoZona(ESTADO_ZONA, vehiculoId)
            /\ salida' = Res(ruta, vehiculoId, 200, [ok |-> TRUE, mensaje |-> "desactivada"])
            /\ UNCHANGED <<ESTADO_CORTE, enVuelo>>

---------------------------------------------------------------------------
(* Implementation A: siniestros *)

\* x || null for a body field; "" stands for a missing field
ONull(x) == IF x = "" THEN "null" ELSE x

\* POST /api/vehiculos/:vehiculoId/siniestro/iniciar
PostSiniestroIniciar(vehiculoId, body) ==
  LET ruta == "siniestro/iniciar" IN
  /\ EsA
  /\ UNCHANGED Otros
  /\ IF ~Existe(VEHICULOS, vehiculoId)
       THEN Rechazo(ruta, vehiculoId, 404, [error |-> "no configurado"])
     ELSE LET config == Obtener(VEHICULOS, vehiculoId) IN
       IF ~config.activo
         THEN Rechazo(ruta, vehiculoId, 409, [error |-> "inactivo"])
       ELSE LET yaEnSiniestro == config.modoSiniestro
                ahoraIso == reloj
                siniestro == [activo |-> TRUE,
                              causa |-> ONull(body.causa),
                              canal |-> ONull(body.canal),
                              horaInicio |-> Algo(ahoraIso),
                              horaCierre |-> Nulo,
                              resultado |-> "null",
                              ultimaUbicacionCierre |-> Nulo]
            IN /\ VEHICULOS' = Poner(VEHICULOS, vehiculoId,
                                     [config EXCEPT !.modoSiniestro = TRUE,
                                                    !.siniestro = Algo(siniestro)])
               /\ archivo' = guardarVehiculos(VEHICULOS')
               /\ salida' = Res(ruta, vehiculoId, 200,
                                [ok |-> TRUE, yaEnSiniestro |-> yaEnSiniestro,
                                 horaInicio |-> ahoraIso])
               /\ UNCHANGED <<ESTADO_CORTE, ESTADO_ZONA, enVuelo>>

\* POST /api/vehiculos/:vehiculoId/siniestro/cerrar, up to its first await:
\* the resume command when the vehicle is cut, else the position lookup
PostSiniestroCerrar(vehiculoId, body) ==
  LET ruta == "siniestro/cerrar" IN
  /\ EsA
  /\ UNCHANGED Otros
  /\ IF ~Existe(VEHICULOS, vehiculoId)
       THEN Rechazo(ruta, vehiculoId, 404, [error |-> "no configurado"])
     ELSE IF body.resultado \notin {"recuperado", "no_recuperado"}
       THEN Rechazo(ruta, vehiculoId, 400, [error |-> "resultado"])
     ELSE IF UniqueIdDe(vehiculoId) = "null"
       THEN Rechazo(ruta, vehiculoId, 409, [error |-> "sin uniqueId"])
     ELSE /\ SinCambio
          /\ IF Leer(ESTADO_CORTE, vehiculoId) = "cortado"
               THEN Suspender(EnEspera(ruta, "comando", vehiculoId, body,
                                       [uniqueId |-> UniqueIdDe(vehiculoId)]))
               ELSE Suspender(EnEspera(ruta, "posicion", vehiculoId, body,
                                       [reanudoMotor |-> FALSE, comandoId |-> Nulo]))

\* siniestro/cerrar that goes on to close the incident when the resume fails
PostSiniestroCerrar_comando_sigue(r, cmd) ==
  /\ EsA /\ ReanudaComando(r, "siniestro/cerrar", "engineResume", cmd)
  /\ UNCHANGED <<VEHICULOS, ESTADO_ZONA, archivo>>
  /\ IF cmd.error
       THEN /\ Sigue(r, "posicion", [reanudoMotor |-> FALSE, comandoId |-> Nulo])
            /\ UNCHANGED ESTADO_CORTE
       ELSE /\ ESTADO_CORTE' = Asignar(ESTADO_CORTE, r.vehiculoId, "normal")
            /\ Sigue(r, "posicion", [reanudoMotor |-> TRUE,
                                     comandoId |-> Algo(Val(cmd.command).id)])

\* siniestro/cerrar: the resume command was sent or failed
PostSiniestroCerrar_comando(r, cmd) ==
  /\ EsA /\ ReanudaComando(r, "siniestro/cerrar", "engineResume", cmd)
  /\ IF cmd.error
       THEN /\ Termina(r, 500, [error |-> "No se pudo reanudar el motor al cerrar el siniestro"])
            /\ SinCambio
       ELSE /\ ESTADO_CORTE' = Asignar(ESTADO_CORTE, r.vehiculoId, "normal")
            /\ Sigue(r, "posicion", [reanudoMotor |-> TRUE,
                                     comandoId |-> Algo(Val(cmd.command).id)])
            /\ UNCHANGED <<VEHICULOS, ESTADO_ZONA, archivo>>

\* { ...(config.siniestro || {}), activo: false, resultado, horaInicio, horaCierre,
\*   ultimaUbicacionCierre }
SiniestroCerrado(config, resultado, ahoraIso, ultimaUbicacion) ==
  LET previo == IF EsNulo(config.siniestro)
                  THEN [causa |-> "undefined", canal |-> "undefined", horaInicio |-> Nulo]
                  ELSE Val(config.siniestro)
  IN [activo |-> FALSE,
      causa |-> previo.causa,
      canal |-> previo.canal,
      horaInicio |-> previo.horaInicio,
      horaCierre |-> Algo(ahoraIso),
      resultado |-> resultado,
      ultimaUbicacionCierre |-> ultimaUbicacion]

\* variant in which a failed audit lookup answers 500 and closes nothing
PostSiniestroCerrar_posicion_aborta(r, pos) ==
  LET ultimaUbicacion ==
        IF EsNulo(pos.position) THEN Nulo
        ELSE Algo([lat |-> Val(pos.position).latitude,
                   lon |-> Val(pos.position).longitude])
      config == Obtener(VEHICULOS, r.vehiculoId)
      cerrado == SiniestroCerrado(config, r.body.resultado, reloj, ultimaUbicacion)
  IN /\ EsA /\ Reanuda(r, "siniestro/cerrar", "posicion")
     /\ UNCHANGED <<ESTADO_CORTE, ESTADO_ZONA>>
     /\ IF pos.error
          THEN /\ Termina(r, 500, [error |-> "posicion"])
               /\ UNCHANGED <<VEHICULOS, archivo>>
          ELSE /\ VEHICULOS' = Poner(VEHICULOS, r.vehiculoId,
                                     [config EXCEPT !.modoSiniestro = FALSE,
                                                    !.siniestro = Algo(cerrado)])
               /\ archivo' = guardarVehiculos(VEHICULOS')
               /\ Termina(r, 200, [ok |-> TRUE, resultado |-> r.body.resultado,
                                   reanudo_motor |-> r.loc.reanudoMotor,
                                   comandoId |-> r.loc.comandoId,
                                   horaCierre |-> reloj])

\* siniestro/cerrar: the audit position lookup returned or threw
PostSiniestroCerrar_posicion(r, pos) ==
  LET ultimaUbicacion ==
        IF pos.error \/ EsNulo(pos.position) THEN Nulo
        ELSE Algo([lat |-> Val(pos.position).latitude,
                   lon |-> Val(pos.position).longitude])
      config == Obtener(VEHICULOS, r.vehiculoId)
      cerrado == SiniestroCerrado(config, r.body.resultado, reloj, ultimaUbicacion)
  IN /\ EsA /\ Reanuda(r, "siniestro/cerrar", "posicion")
     /\ VEHICULOS' = Poner(VEHICULOS, r.vehiculoId,
                           [config EXCEPT !.modoSiniestro = FALSE,
                                          !.siniestro = Algo(cerrado)])
     /\ archivo' = guardarVehiculos(VEHICULOS')
     /\ Termina(r, 200, [ok |-> TRUE, resultado |-> r.body.resultado,
                         reanudo_motor |-> r.loc.reanudoMotor,
                         comandoId |-> r.loc.comandoId,
                         horaCierre |-> reloj])
     /\ UNCHANGED <<ESTADO_CORTE, ESTADO_ZONA>>

---------------------------------------------------------------------------
(* Implementation A: the sweep evaluarZonasSegurasYGenerarEventos *)

\* variant that looks at the hours only
AplicaVentana_soloHora(zona, ahoraLocal) ==
  horaDentroDeVentana(zona.horaInicio, zona.horaFin, ahoraLocal)

\* zona.diasSemana.includes(codigoDia) && horaDentroDeVentana(...)
AplicaVentana(zona, ahoraLocal) ==
  /\ Includes(zona.diasSemana, codigoDiaSemanaMx(ahoraLocal))
  /\ horaDentroDeVentana(zona.horaInicio, zona.horaFin, ahoraLocal)

\* the vehicle is swept: active, with a device and an enabled zone
Evaluable(config) ==
  /\ config.activo
  /\ config.uniqueId # "null"
  /\ ~EsNulo(config.zonaSegura)
  /\ Val(config.zonaSegura).activo

RECURSIVE Avanzar(_, _, _, _)
\* The for loop over the entries still to visit, run up to its next await:
\* vehicles that are not evaluable are skipped, vehicles out of their window
\* are marked fuera_horario, the first vehicle inside its window suspends the
\* sweep in the position lookup.  Yields the new ESTADO_ZONA and sweep state.
Avanzar(vehiculos, pendientes, ez, ahoraLocal) ==
  IF pendientes = <<>> THEN [ez |-> ez, barrido |-> BarridoIdle]
  ELSE
    LET vehiculoId == Head(pendientes)
        config == Obtener(vehiculos, vehiculoId)
        zona == Val(config.zonaSegura)
    IN IF ~Evaluable(config)
         THEN Avanzar(vehiculos, Tail(pendientes), ez, ahoraLocal)
       ELSE IF ~AplicaVentana(zona, ahoraLocal)
         THEN Avanzar(vehiculos, Tail(pendientes),
                      Asignar(ez, vehiculoId, "fuera_horario"), ahoraLocal)
       ELSE [ez |-> ez,
             barrido |-> [pc |-> "posicion",
                          pendientes |-> Tail(pendientes),
                          vehiculoId |-> vehiculoId,
                          zona |-> zona,
                          prevEstado |-> EstadoZonaDe(ez, vehiculoId),
                          ahoraLocal |-> ahoraLocal]]

\* variant: a value that is not a number is taken as the default interval
ZONA_SEGURA_INTERVALO_MS_sinNaN ==
  IF EsNulo(entorno.ZONA_SEGURA_INTERVALO_SEGUNDOS) THEN 60 * 1000
  ELSE IF Val(entorno.ZONA_SEGURA_INTERVALO_SEGUNDOS) <= 0 THEN 0
  ELSE Val(entorno.ZONA_SEGURA_INTERVALO_SEGUNDOS) * 1000

\* ZONA_SEGURA_INTERVALO_MS
ZONA_SEGURA_INTERVALO_MS ==
  IF EsNulo(entorno.ZONA_SEGURA_INTERVALO_SEGUNDOS)
       \/ Val(entorno.ZONA_SEGURA_INTERVALO_SEGUNDOS) <= 0
    THEN 0
    ELSE Val(entorno.ZONA_SEGURA_INTERVALO_SEGUNDOS) * 1000

\* The sweep runs from its start up to its first await: it reads the clock,
\* snapshots Object.entries(VEHICULOS) and walks the entries.  bNuevo is the
\* sweep's state after the step.
BarridoInicia(bNuevo, ahoraLocal) ==
  LET av == Avanzar(VEHICULOS, Claves(VEHICULOS), ESTADO_ZONA, ahoraLocal) IN
  /\ EsA
  /\ ZONA_SEGURA_INTERVALO_MS > 0
  /\ ESTADO_ZONA' = av.ez
  /\ bNuevo = av.barrido
  /\ salida' = Nada
  /\ UNCHANGED <<VEHICULOS, ESTADO_CORTE, archivo, enVuelo, ultimoComando, reloj, entorno>>

\* The interval timer fires while no sweep is running.
Barrido(ahoraLocal) ==
  /\ barrido.pc = "idle"
  /\ barrido2.pc = "idle"
  /\ BarridoInicia(barrido', ahoraLocal)
  /\ UNCHANGED barrido2

\* The interval timer fires again while the previous sweep is still suspended
\* in an await: setInterval does not wait for the promise of the last call.
Barrido2(ahoraLocal) ==
  /\ barrido.pc # "idle"
  /\ barrido2.pc = "idle"
  /\ BarridoInicia(barrido2', ahoraLocal)
  /\ UNCHANGED barrido

\* variant in which a vehicle exactly on the internal radius is outside
Veredicto_inclusivo(zona, position) ==
  LET dist == distanciaMetros(zona.centro.lat, zona.centro.lon,
                              position.latitude, position.longitude)
  IN IF dist >= zona.radio_interno_m THEN "fuera" ELSE "dentro"

\* dist > zona.radio_interno_m ? 'fuera' : 'dentro'
Veredicto(zona, position) ==
  LET dist == distanciaMetros(zona.centro.lat, zona.centro.lon,
                              position.latitude, position.longitude)
  IN IF dist > zona.radio_interno_m THEN "fuera" ELSE "dentro"

\* level-triggered variant: emits on every 'fuera' verdict
DebeEmitir_nivel(nuevoEstado, prevEstado) == nuevoEstado = "fuera"

\* nuevoEstado === 'fuera' && prevEstado === 'dentro'
DebeEmitir(nuevoEstado, prevEstado) == nuevoEstado = "fuera" /\ prevEstado = "dentro"

\* the breach event POSTed to ORQ_EVENT_URL
Evento(vehiculoId, zona, position) ==
  [tipo |-> "evento", vehiculoId |-> vehiculoId,
   distancia_m |-> distanciaMetros(zona.centro.lat, zona.centro.lon,
                                   position.latitude, position.longitude),
   radio_interno_m |-> zona.radio_interno_m,
   lat |-> position.latitude]

\* A sweep b resumes from the position lookup of b.vehiculoId: on an error or
\* a missing position it moves on; else it stores the verdict and, on
\* dentro -> fuera, calls enviarEventoSalidaZonaSegura.
BarridoReanudaPosicion(b, bNuevo, pos) ==
  LET nuevoEstado == Veredicto(b.zona, Val(pos.position))
      ezNuevo == Asignar(ESTADO_ZONA, b.vehiculoId, nuevoEstado)
      sinVeredicto == Avanzar(VEHICULOS, b.pendientes, ESTADO_ZONA, b.ahoraLocal)
      conVeredicto == Avanzar(VEHICULOS, b.pendientes, ezNuevo, b.ahoraLocal)
  IN
  /\ EsA
  /\ b.pc = "posicion"
  /\ UNCHANGED <<VEHICULOS, ESTADO_CORTE, archivo, enVuelo, ultimoComando, reloj, entorno>>
  /\ IF pos.error \/ EsNulo(pos.position)
       THEN /\ ESTADO_ZONA' = sinVeredicto.ez
            /\ bNuevo = sinVeredicto.barrido
            /\ salida' = Nada
     ELSE IF DebeEmitir(nuevoEstado, b.prevEstado) /\ ORQ_EVENT_URL # "null"
       THEN /\ ESTADO_ZONA' = ezNuevo
            /\ bNuevo = [pc |-> "post", pendientes |-> b.pendientes,
                         vehiculoId |-> b.vehiculoId, ahoraLocal |-> b.ahoraLocal]
            /\ salida' = Evento(b.vehiculoId, b.zona, Val(pos.position))
     ELSE /\ ESTADO_ZONA' = conVeredicto.ez
          /\ bNuevo = conVeredicto.barrido
          /\ salida' = Nada

\* variant in which a failed lookup ends the whole sweep
Barrido_posicion_aborta(pos) ==
  IF pos.error
    THEN /\ EsA
         /\ barrido.pc = "posicion"
         /\ barrido' = BarridoIdle
         /\ salida' = Nada
         /\ UNCHANGED <<VEHICULOS, ESTADO_CORTE, ESTADO_ZONA, archivo, enVuelo, barrido2,
                        ultimoComando, reloj, entorno>>
    ELSE BarridoReanudaPosicion(barrido, barrido', pos) /\ UNCHANGED barrido2

Barrido_posicion(pos) ==
  BarridoReanudaPosicion(barrido, barrido', pos) /\ UNCHANGED barrido2

Barrido2_posicion(pos) ==
  BarridoReanudaPosicion(barrido2, barrido2', pos) /\ UNCHANGED barrido

\* the line enviarEventoSalidaZonaSegura writes to the console
Registro_entrega(vehiculoId, entregado) ==
  [tipo |-> "log", vehiculoId |-> vehiculoId, entregado |-> entregado]

\* A sweep b resumes from axios.post(ORQ_EVENT_URL): delivered or failed, the
\* outcome is only logged and the loop goes on.
BarridoReanudaPost(b, bNuevo, entregado) ==
  LET av == Avanzar(VEHICULOS, b.pendientes, ESTADO_ZONA, b.ahoraLocal) IN
  /\ EsA
  /\ b.pc = "post"
  /\ entregado \in BOOLEAN
  /\ ESTADO_ZONA' = av.ez
  /\ bNuevo = av.barrido
  /\ salida' = Registro_entrega(b.vehiculoId, entregado)
  /\ UNCHANGED <<VEHICULOS, ESTADO_CORTE, archivo, enVuelo, ultimoComando, reloj, entorno>>

\* variant that takes the vehicle back to 'dentro' when the delivery failed,
\* so that the next sweep sends the notification again
Barrido_post_reintenta(entregado) ==
  LET ez == IF entregado THEN ESTADO_ZONA
            ELSE Asignar(ESTADO_ZONA, barrido.vehiculoId, "dentro")
      av == Avanzar(VEHICULOS, barrido.pendientes, ez, barrido.ahoraLocal)
  IN
  /\ EsA
  /\ barrido.pc = "post"
  /\ entregado \in BOOLEAN
  /\ ESTADO_ZONA' = av.ez
  /\ barrido' = av.barrido
  /\ salida' = Registro_entrega(barrido.vehiculoId, entregado)
  /\ UNCHANGED <<VEHICULOS, ESTADO_CORTE, archivo, enVuelo, barrido2, ultimoComando,
                 reloj, entorno>>

Barrido_post(entregado) ==
  BarridoReanudaPost(barrido, barrido', entregado) /\ UNCHANGED barrido2

Barrido2_post(entregado) ==
  BarridoReanudaPost(barrido2, barrido2', entregado) /\ UNCHANGED barrido

---------------------------------------------------------------------------
(* Implementation A: GET /api/vehiculos/:vehiculoId/check-zona-segura *)

\* the handler up to the await on the position lookup; ahoraLocal is
\* DateTime.now() in America/Mexico_City
GetCheckZonaSegura(vehiculoId, ahoraLocal) ==
  LET ruta == "check-zona-segura" IN
  /\ EsA
  /\ UNCHANGED Otros
  /\ IF Precondicion(vehiculoId) # 0
       THEN Rechazo(ruta, vehiculoId, Precondicion(vehiculoId), ErrorPrecondicion(vehiculoId))
     ELSE LET config == Obtener(VEHICULOS, vehiculoId) IN
       IF EsNulo(config.zonaSegura)
         THEN Rechazo(ruta, vehiculoId, 200,
                      [tiene_zona_segura |-> FALSE, activa |-> FALSE,
                       aplica_ventana |-> FALSE, fuera_de_zona |-> FALSE,
                       motivo |-> "SIN_CONFIG"])
       ELSE IF ~Val(config.zonaSegura).activo
         THEN Rechazo(ruta, vehiculoId, 200,
                      [tiene_zona_segura |-> TRUE, activa |-> FALSE,
                       aplica_ventana |-> FALSE, fuera_de_zona |-> FALSE,
                       motivo |-> "ZONA_INACTIVA"])
       ELSE IF ~AplicaVentana(Val(config.zonaSegura), ahoraLocal)
         THEN Rechazo(ruta, vehiculoId, 200,
                      [tiene_zona_segura |-> TRUE, activa |-> TRUE,
                       aplica_ventana |-> FALSE, fuera_de_zona |-> FALSE,
                       motivo |-> "FUERA_HORARIO_O_DIA"])
       ELSE /\ Suspender(EnEspera(ruta, "posicion", vehiculoId, <<>>,
                                  [zona |-> Val(config.zonaSegura)]))
            /\ SinCambio

\* variant that stores the verdict it reports as the vehicle's geofence state
GetCheckZonaSegura_posicion_guarda(r, pos) ==
  /\ EsA /\ Reanuda(r, "check-zona-segura", "posicion")
  /\ UNCHANGED <<VEHICULOS, ESTADO_CORTE, archivo>>
  /\ IF pos.error \/ EsNulo(pos.position)
       THEN Termina(r, 500, [error |-> "Error evaluando Zona Segura"])
            /\ UNCHANGED ESTADO_ZONA
       ELSE LET nuevoEstado == Veredicto(r.loc.zona, Val(pos.position)) IN
            /\ ESTADO_ZONA' = Asignar(ESTADO_ZONA, r.vehiculoId, nuevoEstado)
            /\ Termina(r, 200, [tiene_zona_segura |-> TRUE, activa |-> TRUE,
                                aplica_ventana |-> TRUE,
                                fuera_de_zona |-> (nuevoEstado = "fuera")])

\* the position lookup returned or threw
GetCheckZonaSegura_posicion(r, pos) ==
  /\ EsA /\ Reanuda(r, "check-zona-segura", "posicion")
  /\ SinCambio
  /\ IF pos.error
       THEN Termina(r, 500, [error |-> "Error evaluando Zona Segura"])
     ELSE IF EsNulo(pos.position)
       THEN Termina(r, 500, [error |-> "No se encontro posicion reciente"])
     ELSE LET zona == r.loc.zona
              position == Val(pos.position)
              dist == distanciaMetros(zona.centro.lat, zona.centro.lon,
                                      position.latitude, position.longitude)
              fuera == dist > zona.radio_interno_m
          IN Termina(r, 200,
                     [tiene_zona_segura |-> TRUE, activa |-> TRUE,
                      aplica_ventana |-> TRUE, fuera_de_zona |-> fuera,
                      distancia_m |-> dist,
                      evento_sugerido |-> IF fuera THEN "FUERA_DE_ZONA_SEGURA" ELSE "null"])

---------------------------------------------------------------------------
(* Implementation A: estado-corte and the restart of the process *)

\* GET /api/vehiculos/:vehiculoId/estado-corte
GetEstadoCorte(vehiculoId) ==
  LET ruta == "estado-corte" IN
  /\ EsA
  /\ UNCHANGED Otros
  /\ IF ~Existe(VEHICULOS, vehiculoId)
       THEN Rechazo(ruta, vehiculoId, 404, [error |-> "no configurado"])
       ELSE Rechazo(ruta, vehiculoId, 200,
                    [estado_corte |-> IF Leer(ESTADO_CORTE, vehiculoId) = "undefined"
                                        THEN "normal"
                                        ELSE Leer(ESTADO_CORTE, vehiculoId)])

\* The process stops and starts again: the module is evaluated anew, so
\* ESTADO_CORTE and ESTADO_ZONA are empty objects and cargarVehiculos() fills
\* VEHICULOS from the file; the requests and sweeps that were suspended are
\* gone.
Reinicio ==
  /\ EsA
  /\ VEHICULOS' = archivo
  /\ ESTADO_CORTE' = <<>>
  /\ ESTADO_ZONA' = <<>>
  /\ enVuelo' = {}
  /\ barrido' = BarridoIdle
  /\ barrido2' = BarridoIdle
  /\ salida' = Nada
  /\ UNCHANGED <<archivo, ultimoComando, reloj, entorno>>

---------------------------------------------------------------------------
(* Implementation B: the registry is vehiculos.json, re-read by every       *)
(* request; a handler changes its own copy and writes the whole copy back.  *)

\* cargarVehiculos(): the parsed file
cargarVehiculos == archivo

NumeroMaximo == 999

\* parseInt(id.slice(prefijo.length), 10) when id starts with prefijo, for the
\* ids that generarVehiculoId builds; 0 when id is not prefijo + digits
SufijoDe(id, prefijo) ==
  IF \E n \in 1..NumeroMaximo : id = prefijo \o PadStart3(n)
    THEN CHOOSE n \in 1..NumeroMaximo : id = prefijo \o PadStart3(n)
    ELSE 0

RECURSIVE MaxSufijo(_, _, _)
MaxSufijo(vehiculos, prefijo, i) ==
  IF i > Len(vehiculos) THEN 0
  ELSE LET resto == MaxSufijo(vehiculos, prefijo, i + 1)
           n == SufijoDe(vehiculos[i].id, prefijo)
       IN IF n > resto THEN n ELSE resto

generarVehiculoId(vehiculos, contratoId, tipoCliente) ==
  IF tipoCliente = "individual" THEN contratoId
  ELSE LET prefijo == contratoId \o "-"
       IN prefijo \o PadStart3(MaxSufijo(vehiculos, prefijo, 1) + 1)

DeviceIds == {11}

\* asegurarDeviceTraccar(uniqueId, nombre): throws, or the device
ResultadosDeviceB == {[error |-> TRUE, id |-> 0]} \cup {[error |-> FALSE, id |-> d] : d \in DeviceIds}

\* obtenerUltimaPosicionTraccar(deviceId): throws when the device or its
\* position is missing, else { lat, lon, velocidadKmh, ... }
ResultadosPosicionB(lats) ==
  {r \in ResultadosPosicion(lats) : r.error \/ ~EsNulo(r.position)}

\* B: POST /api/vehiculos, up to the await on asegurarDeviceTraccar
PostVehiculosB(body) ==
  LET ruta == "vehiculos"
      vehiculos == cargarVehiculos
      vehiculoId == generarVehiculoId(vehiculos, body.contratoId, body.tipoCliente)
  IN
  /\ EsB
  /\ UNCHANGED Otros
  /\ IF body.contratoId = "" \/ body.tipoCliente = "" \/ body.nombreTitular = ""
          \/ body.uniqueId = ""
       THEN Rechazo(ruta, "", 400, [error |-> "Datos incompletos"])
       ELSE /\ Suspender(EnEspera(ruta, "device", vehiculoId, body,
                                  [vehiculos |-> vehiculos]))
            /\ SinCambio

\* B: POST /api/vehiculos, after the await
PostVehiculosB_device(r, dev) ==
  /\ EsB
  /\ Reanuda(r, "vehiculos", "device")
  /\ UNCHANGED <<VEHICULOS, ESTADO_CORTE, ESTADO_ZONA>>
  /\ IF dev.error
       THEN Termina(r, 500, [error |-> "No se pudo registrar"]) /\ UNCHANGED archivo
       ELSE LET nuevo == [contratoId |-> r.body.contratoId,
                          tipoCliente |-> r.body.tipoCliente,
                          uniqueId |-> r.body.uniqueId,
                          traccarDeviceId |-> dev.id,
                          activo |-> TRUE,
                          motivo_baja |-> "null",
                          zonaSegura |-> Nulo,
                          siniestro |-> Nulo,
                          estado_corte |-> "undefined"]
            IN /\ archivo' = guardarVehiculos(Poner(r.loc.vehiculos, r.vehiculoId, nuevo))
               /\ Termina(r, 200, [ok |-> TRUE])

\* parseInt(x, 10) of a body field holding a length: the integer metres of a
\* number or numeric string, NaN (Nulo) otherwise
ParseInt10(x) ==
  IF x.tipo \in {"number", "string"} /\ x.dm >= 0 THEN Algo(x.dm \div 10) ELSE Nulo

\* the first failing validation of B's zona-segura body, "" when it is valid
ValidacionZonaB(body) ==
  LET limite == ParseInt10(body.limite_m) IN
  IF EsNulo(limite) \/ Val(limite) < 20 \/ Val(limite) > 40 THEN "limite_m"
  ELSE IF Len(body.diasAccion) = 0 THEN "diasAccion vacio"
  ELSE IF \E i \in 1..Len(body.diasAccion) : body.diasAccion[i] \notin diasValidos
    THEN "diasAccion invalidos"
  ELSE IF body.horaInicio = "" \/ body.horaFin = "" THEN "horas"
  ELSE ""

\* the zone B builds from the body and the fetched position
NuevaZonaB(body, position) ==
  LET limite == Val(ParseInt10(body.limite_m))
      radioCliente == limite
      radioInterno == limite + 10
  IN [nombre |-> IF body.nombre = "" THEN "Zona Segura" ELSE body.nombre,
      centro |-> [lat |-> position.latitude, lon |-> position.longitude],
      radio_cliente_m |-> radioCliente * 10,
      radio_interno_m |-> radioInterno * 10,
      diasSemana |-> body.diasAccion,
      horaInicio |-> body.horaInicio,
      horaFin |-> body.horaFin,
      activo |-> (~EsNulo(body.activo) /\ Val(body.activo)),
      ultimaAlertaActiva |-> FALSE]

\* B: POST /api/vehiculos/:vehiculoId/zona-segura, up to the await
PostZonaSeguraB(vehiculoId, body) ==
  LET ruta == "zona-segura"
      vehiculos == cargarVehiculos
  IN
  /\ EsB
  /\ UNCHANGED Otros
  /\ IF ~Existe(vehiculos, vehiculoId)
       THEN Rechazo(ruta, vehiculoId, 404, [error |-> "no configurado"])
     ELSE IF ValidacionZonaB(body) # ""
       THEN Rechazo(ruta, vehiculoId, 400, [error |-> ValidacionZonaB(body)])
     ELSE IF ~EsNulo(Obtener(vehiculos, vehiculoId).zonaSegura) /\ ~body.forzarSobreEscritura
       THEN Rechazo(ruta, vehiculoId, 409, [error |-> "Zona Segura ya configurada"])
     ELSE IF Obtener(vehiculos, vehiculoId).traccarDeviceId = 0
       THEN Rechazo(ruta, vehiculoId, 409, [error |-> "Vehiculo sin traccarDeviceId"])
     ELSE /\ Suspender(EnEspera(ruta, "posicion", vehiculoId, body,
                                [vehiculos |-> vehiculos]))
          /\ SinCambio

\* B: zona-segura, the position lookup returned or threw
PostZonaSeguraB_posicion(r, pos) ==
  /\ EsB
  /\ Reanuda(r, "zona-segura", "posicion")
  /\ UNCHANGED <<VEHICULOS, ESTADO_CORTE, ESTADO_ZONA>>
  /\ IF pos.error
       THEN Termina(r, 500, [error |-> "Error configurando Zona Segura"]) /\ UNCHANGED archivo
       ELSE LET vehiculo == Obtener(r.loc.vehiculos, r.vehiculoId)
                zonaSegura == NuevaZonaB(r.body, Val(pos.position))
            IN /\ archivo' = guardarVehiculos(Poner(r.loc.vehiculos, r.vehiculoId,
                                   [vehiculo EXCEPT !.zonaSegura = Algo(zonaSegura)]))
               /\ Termina(r, 200, [ok |-> TRUE, zonaSegura |-> zonaSegura])

\* variant of activar and desactivar that leaves ultimaAlertaActiva as it was
PostZonaSeguraActivoB_sinRearme(vehiculoId, ruta, activo) ==
  LET vehiculos == cargarVehiculos IN
  /\ EsB
  /\ UNCHANGED Otros
  /\ IF ~Existe(vehiculos, vehiculoId)
       THEN Rechazo(ruta, vehiculoId, 404, [error |-> "no encontrado"])
     ELSE LET vehiculo == Obtener(vehiculos, vehiculoId) IN
       IF EsNulo(vehiculo.zonaSegura)
         THEN Rechazo(ruta, vehiculoId, IF activo THEN 409 ELSE 404,
                      [error |-> "Zona Segura no configurada"])
       ELSE /\ archivo' = guardarVehiculos(Poner(vehiculos, vehiculoId,
                 [vehiculo EXCEPT !.zonaSegura =
                    Algo([Val(vehiculo.zonaSegura) EXCEPT !.activo = activo])]))
            /\ salida' = Res(ruta, vehiculoId, 200, [ok |-> TRUE])
            /\ UNCHANGED <<VEHICULOS, ESTADO_CORTE, ESTADO_ZONA, enVuelo>>

\* B: POST .../zona-segura/desactivar and .../zona-segura/activar
PostZonaSeguraActivoB(vehiculoId, ruta, activo) ==
  LET vehiculos == cargarVehiculos IN
  /\ EsB
  /\ UNCHANGED Otros
  /\ IF ~Existe(vehiculos, vehiculoId)
       THEN Rechazo(ruta, vehiculoId, 404, [error |-> "no encontrado"])
     ELSE LET vehiculo == Obtener(vehiculos, vehiculoId) IN
       IF EsNulo(vehiculo.zonaSegura)
         THEN Rechazo(ruta, vehiculoId, IF activo THEN 409 ELSE 404,
                      [error |-> "Zona Segura no configurada"])
       ELSE /\ archivo' = guardarVehiculos(Poner(vehiculos, vehiculoId,
                 [vehiculo EXCEPT !.zonaSegura =
                    Algo([Val(vehiculo.zonaSegura) EXCEPT !.activo = activo,
                                                          !.ultimaAlertaActiva = FALSE])]))
            /\ salida' = Res(ruta, vehiculoId, 200, [ok |-> TRUE])
            /\ UNCHANGED <<VEHICULOS, ESTADO_CORTE, ESTADO_ZONA, enVuelo>>

PostZonaSeguraDesactivarB(vehiculoId) ==
  PostZonaSeguraActivoB(vehiculoId, "zona-segura/desactivar", FALSE)

PostZonaSeguraActivarB(vehiculoId) ==
  PostZonaSeguraActivoB(vehiculoId, "zona-segura/activar", TRUE)

\* enviarComandoTraccar(deviceId, tipo, data): throws, or the command
ResultadosComandoB ==
  {[error |-> TRUE, command |-> Nulo]}
    \cup {[error |-> FALSE, command |-> Algo([id |-> c])] : c \in ComandoIds}

\* B: a handler suspended in enviarComandoTraccar resumes
ReanudaComandoB(r, ruta, type, cmd) ==
  /\ r \in enVuelo /\ r.ruta = ruta /\ r.pc = "comando"
  /\ cmd \in ResultadosComandoB
  /\ ultimoComando' = IF cmd.error THEN ultimoComando
                      ELSE Algo([type |-> type, id |-> Val(cmd.command).id])
  /\ UNCHANGED <<barrido, barrido2, reloj, entorno>>

\* B: POST /api/vehiculos/:vehiculoId/inactivar
PostInactivarB(vehiculoId, motivo) ==
  LET ruta == "inactivar"
      vehiculos == cargarVehiculos
  IN
  /\ EsB
  /\ UNCHANGED Otros
  /\ IF ~Existe(vehiculos, vehiculoId)
       THEN Rechazo(ruta, vehiculoId, 404, [error |-> "no encontrado"])
       ELSE /\ archivo' = guardarVehiculos(Poner(vehiculos, vehiculoId,
                 [Obtener(vehiculos, vehiculoId) EXCEPT
                    !.activo = FALSE,
                    !.motivo_baja = IF motivo = "" THEN "sin_especificar" ELSE motivo]))
            /\ salida' = Res(ruta, vehiculoId, 200, [ok |-> TRUE, activo |-> FALSE])
            /\ UNCHANGED <<VEHICULOS, ESTADO_CORTE, ESTADO_ZONA, enVuelo>>

\* B: POST /api/vehiculos/:vehiculoId/corte, up to the await on the position
PostCorteB(vehiculoId) ==
  LET ruta == "corte"
      vehiculos == cargarVehiculos
  IN
  /\ EsB
  /\ UNCHANGED Otros
  /\ IF ~Existe(vehiculos, vehiculoId)
       THEN Rechazo(ruta, vehiculoId, 404, [error |-> "no configurado"])
     ELSE IF ~Obtener(vehiculos, vehiculoId).activo
       THEN Rechazo(ruta, vehiculoId, 409, [error |-> "inactivo"])
     ELSE IF Obtener(vehiculos, vehiculoId).traccarDeviceId = 0
       THEN Rechazo(ruta, vehiculoId, 409, [error |-> "Vehiculo sin traccarDeviceId"])
     ELSE /\ Suspender(EnEspera(ruta, "posicion", vehiculoId, <<>>,
                                [vehiculos |-> vehiculos]))
          /\ SinCambio

\* B: corte, the position lookup returned or threw; a throw reaches the
\* handler's only catch, else enviarComandoTraccar is called
PostCorteB_posicion(r, pos) ==
  /\ EsB
  /\ Reanuda(r, "corte", "posicion")
  /\ SinCambio
  /\ IF pos.error
       THEN Termina(r, 500, [error |-> "No se pudo enviar el comando de corte"])
       ELSE LET velocidadKmh == knotsToKmh(Val(pos.position).speed)
                velocidad == IF EsNulo(velocidadKmh) THEN 0 ELSE Val(velocidadKmh)
            IN Sigue(r, "comando", [vehiculos |-> r.loc.vehiculos,
                                    velocidad |-> velocidad])

\* B: corte, the command was sent or failed
PostCorteB_comando(r, cmd) ==
  /\ EsB
  /\ ReanudaComandoB(r, "corte", "engineStop", cmd)
  /\ UNCHANGED <<VEHICULOS, ESTADO_CORTE, ESTADO_ZONA>>
  /\ IF cmd.error
       THEN /\ Termina(r, 500, [error |-> "No se pudo enviar el comando de corte"])
            /\ UNCHANGED archivo
       ELSE LET vehiculo == Obtener(r.loc.vehiculos, r.vehiculoId) IN
            /\ archivo' = guardarVehiculos(Poner(r.loc.vehiculos, r.vehiculoId,
                                                 [vehiculo EXCEPT !.estado_corte = "cortado"]))
            /\ Termina(r, 200, [ok |-> TRUE,
                                resultado |-> "comando_enviado",
                                estado_corte |-> "cortado",
                                velocidad_kmh |-> r.loc.velocidad,
                                corte_puede_demorar |-> r.loc.velocidad > 20 * 1000])

---------------------------------------------------------------------------
(* Implementation B: the sweep motorZonaSegura *)

\* MAP_DIA[d], 0 for a code it does not hold
MAP_DIA(d) ==
  CASE d = "LU" -> 1 [] d = "MA" -> 2 [] d = "MI" -> 3 [] d = "JU" -> 4
    [] d = "VI" -> 5 [] d = "SA" -> 6 [] d = "DO" -> 7 [] OTHER -> 0

\* parseInt(t, 10) of a piece of a time string; on the pieces Split yields
\* (all digits, or no leading digit) it agrees with Number
ParseIntTexto(t) == Number(t)

\* horaEnMinutos(hhmm): null (Nulo) when the hour or the minute is NaN
horaEnMinutos(hhmm) ==
  LET partes == Split(hhmm)
      h == ParseIntTexto(partes[1])
      m == IF Len(partes) >= 2 THEN ParseIntTexto(partes[2]) ELSE Nulo
  IN IF EsNulo(h) \/ EsNulo(m) THEN Nulo ELSE Algo(Val(h) * 60 + Val(m))

\* estaEnVentanaHorario(zona, dtLocal)
estaEnVentanaHorario(zona, dtLocal) ==
  IF zona.horaInicio \in {"", "null"} \/ zona.horaFin \in {"", "null"} THEN FALSE
  ELSE IF ~\E i \in 1..Len(zona.diasSemana) :
             MAP_DIA(zona.diasSemana[i]) # 0 /\ MAP_DIA(zona.diasSemana[i]) = dtLocal.weekday
    THEN FALSE
  ELSE
    LET hm == dtLocal.hour * 60 + dtLocal.minute
        inicio == horaEnMinutos(zona.horaInicio)
        fin == horaEnMinutos(zona.horaFin)
    IN IF EsNulo(inicio) \/ EsNulo(fin) THEN FALSE
       ELSE IF Val(inicio) <= Val(fin)
         THEN hm >= Val(inicio) /\ hm <= Val(fin)
         ELSE hm >= Val(inicio) \/ hm <= Val(fin)

\* the condition of motorZonaSegura's loop body
MotorEvalua(vehiculo) ==
  /\ ~EsNulo(vehiculo.zonaSegura)
  /\ Val(vehiculo.zonaSegura).activo

\* evaluarZonaSeguraParaVehiculo gets past its early returns
EvaluableB(vehiculo) ==
  /\ ~EsNulo(vehiculo.zonaSegura)
  /\ Val(vehiculo.zonaSegura).activo
  /\ vehiculo.traccarDeviceId # 0
  /\ ORQ_EVENT_URL # "null"

RECURSIVE AvanzarB(_, _)
\* motorZonaSegura's loop over the ids still to visit of its snapshot, run up
\* to the next await on the position lookup
AvanzarB(vehiculos, pendientes) ==
  IF pendientes = <<>> THEN BarridoIdle
  ELSE
    LET vehiculoId == Head(pendientes)
        vehiculo == Obtener(vehiculos, vehiculoId)
    IN IF ~(MotorEvalua(vehiculo) /\ EvaluableB(vehiculo))
         THEN AvanzarB(vehiculos, Tail(pendientes))
       ELSE [pc |-> "posicionB",
             pendientes |-> Tail(pendientes),
             vehiculoId |-> vehiculoId,
             vehiculos |-> vehiculos,
             zona |-> Val(vehiculo.zonaSegura)]

\* B: if (ZONA_SEGURA_INTERVALO_SEGUNDOS > 0), false for NaN
MotorActivo ==
  /\ ~EsNulo(entorno.ZONA_SEGURA_INTERVALO_SEGUNDOS)
  /\ Val(entorno.ZONA_SEGURA_INTERVALO_SEGUNDOS) > 0

\* B: the interval timer fires: motorZonaSegura loads the registry and walks it
MotorZonaSegura ==
  /\ EsB
  /\ MotorActivo
  /\ barrido.pc = "idle"
  /\ barrido' = AvanzarB(cargarVehiculos, Claves(cargarVehiculos))
  /\ salida' = Nada
  /\ UNCHANGED <<VEHICULOS, ESTADO_CORTE, ESTADO_ZONA, archivo, enVuelo, barrido2,
                 ultimoComando, reloj, entorno>>

\* if (huboCambio): the file is read again and, when the vehicle still has a
\* zone, its ultimaAlertaActiva is written
EscribeAlerta(vehiculoId, valor) ==
  LET vehiculos == cargarVehiculos IN
  IF Existe(vehiculos, vehiculoId) /\ ~EsNulo(Obtener(vehiculos, vehiculoId).zonaSegura)
    THEN LET vehiculo == Obtener(vehiculos, vehiculoId) IN
         guardarVehiculos(Poner(vehiculos, vehiculoId,
           [vehiculo EXCEPT !.zonaSegura =
              Algo([Val(vehiculo.zonaSegura) EXCEPT !.ultimaAlertaActiva = valor])]))
    ELSE archivo

\* B: evaluarZonaSeguraParaVehiculo resumes from the position lookup; dtLocal
\* is the local time of the position
MotorZonaSegura_posicion(pos, dtLocal) ==
  LET zona == barrido.zona
      position == Val(pos.position)
      aplicaVentana == estaEnVentanaHorario(zona, dtLocal)
      dist == distanciaMetros(zona.centro.lat, zona.centro.lon,
                              position.latitude, position.longitude)
      fuera == dist > zona.radio_interno_m
      sigue == AvanzarB(barrido.vehiculos, barrido.pendientes)
  IN
  /\ EsB
  /\ barrido.pc = "posicionB"
  /\ UNCHANGED <<VEHICULOS, ESTADO_CORTE, ESTADO_ZONA, enVuelo, barrido2,
                 ultimoComando, reloj, entorno>>
  /\ IF pos.error
       THEN /\ barrido' = sigue
            /\ salida' = Nada
            /\ UNCHANGED archivo
     ELSE IF aplicaVentana /\ fuera
       THEN IF ~zona.ultimaAlertaActiva
              THEN /\ barrido' = [barrido EXCEPT !.pc = "postB"]
                   /\ salida' = Evento(barrido.vehiculoId, zona, position)
                   /\ UNCHANGED archivo
              ELSE /\ barrido' = sigue
                   /\ salida' = Nada
                   /\ UNCHANGED archivo
     ELSE /\ barrido' = sigue
          /\ salida' = Nada
          /\ archivo' = IF zona.ultimaAlertaActiva
                          THEN EscribeAlerta(barrido.vehiculoId, FALSE)
                          ELSE archivo

\* B: evaluarZonaSeguraParaVehiculo resumes from axios.post: delivered or not,
\* ultimaAlertaActiva becomes true and is written
MotorZonaSegura_post(entregado) ==
  /\ EsB
  /\ barrido.pc = "postB"
  /\ entregado \in BOOLEAN
  /\ archivo' = EscribeAlerta(barrido.vehiculoId, TRUE)
  /\ barrido' = AvanzarB(barrido.vehiculos, barrido.pendientes)
  /\ salida' = Nada
  /\ UNCHANGED <<VEHICULOS, ESTADO_CORTE, ESTADO_ZONA, enVuelo, barrido2,
                 ultimoComando, reloj, entorno>>

---------------------------------------------------------------------------
(* Implementation B: GET /api/vehiculos/:vehiculoId/check-zona-segura *)

\* the handler up to the await on the position lookup
GetCheckZonaSeguraB(vehiculoId) ==
  LET ruta == "check-zona-segura"
      vehiculos == cargarVehiculos
  IN
  /\ EsB
  /\ UNCHANGED Otros
  /\ IF ~Existe(vehiculos, vehiculoId)
       THEN Rechazo(ruta, vehiculoId, 404, [error |-> "no configurado"])
     ELSE LET vehiculo == Obtener(vehiculos, vehiculoId) IN
       IF EsNulo(vehiculo.zonaSegura)
         THEN Rechazo(ruta, vehiculoId, 200, [tiene_zona_segura |-> FALSE])
       ELSE IF vehiculo.traccarDeviceId = 0
         THEN Rechazo(ruta, vehiculoId, 409, [error |-> "Vehiculo sin traccarDeviceId"])
       ELSE /\ Suspender(EnEspera(ruta, "posicion", vehiculoId, <<>>,
                                  [zona |-> Val(vehiculo.zonaSegura)]))
            /\ SinCambio

\* the position lookup returned or threw; dtLocal is the local time of the
\* position
GetCheckZonaSeguraB_posicion(r, pos, dtLocal) ==
  /\ EsB
  /\ Reanuda(r, "check-zona-segura", "posicion")
  /\ SinCambio
  /\ IF pos.error
       THEN Termina(r, 500, [error |-> "Error evaluando Zona Segura"])
       ELSE LET zona == r.loc.zona
                position == Val(pos.position)
                dist == distanciaMetros(zona.centro.lat, zona.centro.lon,
                                        position.latitude, position.longitude)
            IN Termina(r, 200,
                       [tiene_zona_segura |-> TRUE,
                        zona_activa |-> zona.activo,
                        aplica_ventana |-> (zona.activo /\ estaEnVentanaHorario(zona, dtLocal)),
                        fuera_de_zona |-> (dist > zona.radio_interno_m),
                        distancia_m |-> dist])

---------------------------------------------------------------------------
(* Requests and clock readings of the model *)

IdsPeticion == {"c1"}

BodiesAlta ==
  {[contratoId |-> "c1", tipoCliente |-> "individual", nombreTitular |-> "t1",
    uniqueId |-> "d1"]}

Motivos == {"impago", "otro"}

Numero(dm) == [tipo |-> "number", dm |-> dm]

BodyZonaBase ==
  [nombre |-> "casa", limite_m |-> Numero(200), diasAccion |-> <<"LU">>,
   horaInicio |-> "08:00", horaFin |-> "18:00", activo |-> Algo(TRUE),
   forzarSobreEscritura |-> FALSE]

\* limite_m of 19.5, 20, 40 and 40.5 metres
LimitesPeticion == {Numero(195), Numero(200), Numero(400), Numero(405)}

BodiesZona ==
  {[BodyZonaBase EXCEPT !.limite_m = l, !.activo = Algo(a), !.forzarSobreEscritura = f] :
     l \in LimitesPeticion, a \in BOOLEAN, f \in BOOLEAN}
  \cup {[BodyZonaBase EXCEPT !.diasAccion = <<>>],
        [BodyZonaBase EXCEPT !.diasAccion = <<"LU", "XX">>],
        [BodyZonaBase EXCEPT !.activo = Nulo],
        [BodyZonaBase EXCEPT !.limite_m = [tipo |-> "string", dm |-> 300]]}

\* Monday 10:00, Monday 20:00, Saturday 10:00
Ahoras ==
  {[weekday |-> 1, hour |-> 10, minute |-> 0],
   [weekday |-> 1, hour |-> 20, minute |-> 0],
   [weekday |-> 6, hour |-> 10, minute |-> 0]}

\* valid bodies, with and without the overwrite flag
BodiesZonaValidos == {[BodyZonaBase EXCEPT !.forzarSobreEscritura = f] : f \in BOOLEAN}

\* Monday 10:00, inside the window of BodyZonaBase
AhorasEnVentana == {[weekday |-> 1, hour |-> 10, minute |-> 0]}

\* the vehicles of a registry with two contracts
IdsPeticion2 == {"c1", "c2"}

BodiesIniciar == {[causa |-> "robo", canal |-> "app"], [causa |-> "", canal |-> "tel"]}

BodiesCerrar == {[resultado |-> "recuperado"], [resultado |-> "otro"]}

---------------------------------------------------------------------------
(* Implementation A, zone configuration and sweeps of one vehicle *)

InitZona ==
  Arranque([impl |-> "A", ORQ_EVENT_URL |-> "http://orq",
            ZONA_SEGURA_INTERVALO_SEGUNDOS |-> Algo(60)])

NextZona ==
  \/ \E body \in BodiesAlta : PostVehiculos(body)
  \/ \E r \in enVuelo, dev \in ResultadosDevice : PostVehiculos_device(r, dev)
  \/ \E id \in IdsPeticion, body \in BodiesZona : PostZonaSegura(id, body)
  \/ \E r \in enVuelo, pos \in ResultadosPosicion(Latitudes) : PostZonaSegura_posicion(r, pos)
  \/ \E id \in IdsPeticion : PostZonaSeguraDesactivar(id)
  \/ \E ahoraLocal \in Ahoras : Barrido(ahoraLocal)
  \/ \E pos \in ResultadosPosicion(Latitudes) : Barrido_posicion(pos)
  \/ \E entregado \in BOOLEAN : Barrido_post(entregado)

SpecZona == InitZona /\ [][NextZona]_vars

---------------------------------------------------------------------------
(* Claims on zone configuration and sweeps, implementation A *)

\* the sweep resumes from the position lookup in this step
PasoVeredicto == barrido.pc = "posicion" /\ barrido' # barrido

\* C1: with non-overlapping sweeps of one vehicle, a sweep sends a breach
\* notification if and only if the geofence state it read before the sweep
\* was 'dentro' and its verdict is 'fuera'; the state it read is the one
\* stored when the sweep started.
C1_NotificacionSoloEnFlanco ==
  [][/\ (salida'.tipo = "evento") <=>
          /\ PasoVeredicto
          /\ barrido.prevEstado = "dentro"
          /\ Leer(ESTADO_ZONA', barrido.vehiculoId) = "fuera"
     /\ (barrido.pc = "idle" /\ barrido'.pc = "posicion") =>
          barrido'.prevEstado = EstadoZonaDe(ESTADO_ZONA, barrido'.vehiculoId)]_vars

\* a notification has just been posted for a vehicle now stored as 'fuera'
C1_Witness ==
  /\ salida.tipo = "evento"
  /\ barrido.pc = "post"
  /\ Leer(ESTADO_ZONA, salida.vehiculoId) = "fuera"

\* C2: a sweep whose verdict is 'fuera' sends no notification when the
\* geofence state stored just before the verdict is applied is 'desconocido'
\* or 'fuera_horario'; so the first verdict applied after ConfigureZone or
\* DeactivateZone reset the state never sends one.
C2_SinNotificacionDesdeDesconocido ==
  [][(/\ PasoVeredicto
      /\ EstadoZonaDe(ESTADO_ZONA, barrido.vehiculoId) \in {"desconocido", "fuera_horario"}
      /\ Leer(ESTADO_ZONA', barrido.vehiculoId) = "fuera")
     => salida'.tipo # "evento"]_vars

\* the response of a successful zona-segura or zona-segura/desactivar request
RespuestaOkZona(s) ==
  /\ s.tipo = "res"
  /\ s.ruta \in {"zona-segura", "zona-segura/desactivar"}
  /\ s.status = 200
  /\ s.cuerpo.ok

\* C3: when ConfigureZone succeeds, and when DeactivateZone disables an
\* enabled zone, ESTADO_ZONA[vehiculoId] is 'desconocido' as the request
\* returns.
C3_ReinicioADesconocido ==
  RespuestaOkZona(salida) => Leer(ESTADO_ZONA, salida.vehiculoId) = "desconocido"

\* a zone has just been disabled while a sweep that read 'dentro' for it is
\* still waiting for the position
C3_Witness ==
  /\ RespuestaOkZona(salida)
  /\ salida.ruta = "zona-segura/desactivar"
  /\ barrido.pc = "posicion"
  /\ barrido.prevEstado = "dentro"

\* C4: ConfigureZone with a valid body and a falsy forzarSobreEscritura, on a
\* vehicle whose zone has activo = true, answers with the existing zone for
\* confirmation, changes nothing and starts no position lookup.
C4_SinSobreescrituraSinConfirmar ==
  [][\A id \in IdsPeticion, body \in BodiesZona :
       (/\ ~body.forzarSobreEscritura
        /\ ValidacionZona(body) = ""
        /\ Precondicion(id) = 0
        /\ ~EsNulo(Obtener(VEHICULOS, id).zonaSegura)
        /\ Val(Obtener(VEHICULOS, id).zonaSegura).activo
        /\ PostZonaSegura(id, body))
       => LET zona == Val(Obtener(VEHICULOS, id).zonaSegura) IN
          /\ salida'.tipo = "res" /\ salida'.status = 200
          /\ salida'.cuerpo.ok = FALSE
          /\ salida'.cuerpo.requiere_confirmacion
          /\ salida'.cuerpo.zona_actual.nombre = zona.nombre
          /\ salida'.cuerpo.zona_actual.radio_cliente_m = zona.radio_cliente_m
          /\ salida'.cuerpo.zona_actual.activo = zona.activo
          /\ UNCHANGED <<VEHICULOS, ESTADO_ZONA, ESTADO_CORTE, archivo, enVuelo>>]_vars

\* the confirmation was asked for a vehicle whose geofence state is a verdict
C4_Witness ==
  /\ salida.tipo = "res" /\ salida.ruta = "zona-segura" /\ salida.status = 200
  /\ ~salida.cuerpo.ok
  /\ Leer(ESTADO_ZONA, salida.vehiculoId) \in {"dentro", "fuera"}

---------------------------------------------------------------------------
(* Zone configuration in either implementation *)

InitLimites ==
  \E impl \in {"A", "B"} :
    Arranque([impl |-> impl, ORQ_EVENT_URL |-> "http://orq",
              ZONA_SEGURA_INTERVALO_SEGUNDOS |-> Algo(60)])

NextLimites ==
  \/ \E body \in BodiesAlta : PostVehiculos(body)
  \/ \E r \in enVuelo, dev \in ResultadosDevice : PostVehiculos_device(r, dev)
  \/ \E id \in IdsPeticion, body \in BodiesZona : PostZonaSegura(id, body)
  \/ \E r \in enVuelo, pos \in ResultadosPosicion(Latitudes) : PostZonaSegura_posicion(r, pos)
  \/ \E id \in IdsPeticion : PostZonaSeguraDesactivar(id)
  \/ \E body \in BodiesAlta : PostVehiculosB(body)
  \/ \E r \in enVuelo, dev \in ResultadosDeviceB : PostVehiculosB_device(r, dev)
  \/ \E id \in IdsPeticion, body \in BodiesZona : PostZonaSeguraB(id, body)
  \/ \E r \in enVuelo, pos \in ResultadosPosicionB(Latitudes) : PostZonaSeguraB_posicion(r, pos)
  \/ \E id \in IdsPeticion : PostZonaSeguraDesactivarB(id)
  \/ \E id \in IdsPeticion : PostZonaSeguraActivarB(id)

SpecLimites == InitLimites /\ [][NextLimites]_vars

\* every zone stored in a registry keeps radio_interno_m = radio_cliente_m + 10 m
\* and 20 m <= radio_cliente_m <= 40 m
ZonasValidas(registro) ==
  \A i \in 1..Len(registro) :
    LET zonaSegura == registro[i].v.zonaSegura IN
    ~EsNulo(zonaSegura) =>
      /\ Val(zonaSegura).radio_interno_m = Val(zonaSegura).radio_cliente_m + 100
      /\ Val(zonaSegura).radio_cliente_m >= 200
      /\ Val(zonaSegura).radio_cliente_m <= 400

\* C5: in both implementations every stored zone has radio_interno_m =
\* radio_cliente_m + 10 and 20 <= radio_cliente_m <= 40, and a ConfigureZone
\* request whose limite_m is a number below 20 or above 40 is rejected with
\* status 400, changing nothing and starting no position lookup.
C5_LimiteEntre20y40 ==
  [][/\ ZonasValidas(VEHICULOS') /\ ZonasValidas(archivo')
     /\ \A id \in IdsPeticion, body \in BodiesZona :
          (/\ PostZonaSegura(id, body) \/ PostZonaSeguraB(id, body)
           /\ Existe(IF EsA THEN VEHICULOS ELSE archivo, id)
           /\ EsA => Precondicion(id) = 0
           /\ body.limite_m.tipo = "number"
           /\ body.limite_m.dm < 200 \/ body.limite_m.dm > 400)
          => /\ salida'.tipo = "res" /\ salida'.status = 400
             /\ UNCHANGED <<VEHICULOS, ESTADO_ZONA, ESTADO_CORTE, archivo, enVuelo>>]_vars

---------------------------------------------------------------------------
(* Implementation A: deactivation against the requests that need an active  *)
(* vehicle, with a zone, a sweep and an incident in the background          *)

NextActivo ==
  \/ \E body \in BodiesAlta : PostVehiculos(body)
  \/ \E r \in enVuelo, dev \in ResultadosDevice : PostVehiculos_device(r, dev)
  \/ \E id \in IdsPeticion, motivo \in Motivos : PostInactivar(id, motivo)
  \/ \E id \in IdsPeticion : PostReactivar(id)
  \/ \E id \in IdsPeticion : GetUbicacion(id)
  \/ \E r \in enVuelo, pos \in ResultadosPosicion(Latitudes) : GetUbicacion_posicion(r, pos)
  \/ \E id \in IdsPeticion : PostCorte(id)
  \/ \E r \in enVuelo, pos \in ResultadosPosicion(Latitudes) : PostCorte_velocidad(r, pos)
  \/ \E r \in enVuelo, cmd \in ResultadosComando("d1") : PostCorte_comando(r, cmd)
  \/ \E id \in IdsPeticion : PostReanudar(id)
  \/ \E r \in enVuelo, cmd \in ResultadosComando("d1") : PostReanudar_comando(r, cmd)
  \/ \E id \in IdsPeticion, body \in BodiesZonaValidos : PostZonaSegura(id, body)
  \/ \E r \in enVuelo, pos \in ResultadosPosicion(Latitudes) : PostZonaSegura_posicion(r, pos)
  \/ \E id \in IdsPeticion, body \in BodiesIniciar : PostSiniestroIniciar(id, body)
  \/ \E ahoraLocal \in AhorasEnVentana : Barrido(ahoraLocal)
  \/ \E pos \in ResultadosPosicion(Latitudes) : Barrido_posicion(pos)
  \/ \E entregado \in BOOLEAN : Barrido_post(entregado)

SpecActivo == InitZona /\ [][NextActivo]_vars

\* C6: a location query, Cutoff, Resume or ConfigureZone request for a vehicle
\* with activo = false is answered 409, starts no command and no position
\* lookup, and leaves the registry, the cutoff state and the geofence state
\* as they were.
C6_InactivoRechaza ==
  [][\A id \in IdsPeticion :
       (/\ Existe(VEHICULOS, id)
        /\ ~Obtener(VEHICULOS, id).activo
        /\ \/ GetUbicacion(id)
           \/ PostCorte(id)
           \/ PostReanudar(id)
           \/ \E body \in BodiesZonaValidos : PostZonaSegura(id, body))
       => /\ salida'.tipo = "res" /\ salida'.status = 409
          /\ UNCHANGED <<VEHICULOS, ESTADO_CORTE, ESTADO_ZONA, archivo, enVuelo>>]_vars

\* a request was refused for an inactive vehicle that is cut, has an enabled
\* zone it was seen outside of, and has an open incident
C6_Witness ==
  /\ salida.tipo = "res" /\ salida.status = 409
  /\ salida.ruta \in {"ubicacion", "corte", "reanudar", "zona-segura"}
  /\ Existe(VEHICULOS, salida.vehiculoId)
  /\ LET config == Obtener(VEHICULOS, salida.vehiculoId) IN
       /\ ~config.activo
       /\ config.modoSiniestro
       /\ ~EsNulo(config.zonaSegura)
  /\ Leer(ESTADO_CORTE, salida.vehiculoId) = "cortado"
  /\ Leer(ESTADO_ZONA, salida.vehiculoId) = "fuera"

---------------------------------------------------------------------------
(* Implementation A: cutoff, resume and incidents of one vehicle *)

NextSiniestro ==
  \/ \E body \in BodiesAlta : PostVehiculos(body)
  \/ \E r \in enVuelo, dev \in ResultadosDevice : PostVehiculos_device(r, dev)
  \/ \E id \in IdsPeticion, motivo \in Motivos : PostInactivar(id, motivo)
  \/ \E id \in IdsPeticion : PostReactivar(id)
  \/ \E id \in IdsPeticion : PostCorte(id)
  \/ \E r \in enVuelo, pos \in ResultadosPosicion(Latitudes) : PostCorte_velocidad(r, pos)
  \/ \E r \in enVuelo, cmd \in ResultadosComando("d1") : PostCorte_comando(r, cmd)
  \/ \E id \in IdsPeticion : PostReanudar(id)
  \/ \E r \in enVuelo, cmd \in ResultadosComando("d1") : PostReanudar_comando(r, cmd)
  \/ \E id \in IdsPeticion, body \in BodiesIniciar : PostSiniestroIniciar(id, body)
  \/ \E id \in IdsPeticion, body \in BodiesCerrar : PostSiniestroCerrar(id, body)
  \/ \E r \in enVuelo, cmd \in ResultadosComando("d1") : PostSiniestroCerrar_comando(r, cmd)
  \/ \E r \in enVuelo, pos \in ResultadosPosicion(Latitudes) : PostSiniestroCerrar_posicion(r, pos)
  \/ Tic

SpecSiniestro == InitZona /\ [][NextSiniestro]_vars

\* C7: when the resume command that CloseIncident sends for a cut vehicle
\* fails, the request answers 500 and ends there: the registry (modoSiniestro
\* and the siniestro record), the persisted file and the cutoff state are
\* unchanged, so an open incident stays open and 'cortado' stays 'cortado'.
C7_CierreFallidoNoCierra ==
  [][\A r \in enVuelo, cmd \in ResultadosComando("d1") :
       (PostSiniestroCerrar_comando(r, cmd) /\ cmd.error)
       => /\ salida'.tipo = "res" /\ salida'.status = 500
          /\ enVuelo' = enVuelo \ {r}
          /\ UNCHANGED <<VEHICULOS, ESTADO_CORTE, archivo>>]_vars

\* the 500 of a failed automatic resume, with the incident open and the
\* vehicle cut
C7_Witness ==
  /\ salida.tipo = "res" /\ salida.ruta = "siniestro/cerrar" /\ salida.status = 500
  /\ Obtener(VEHICULOS, salida.vehiculoId).modoSiniestro
  /\ Val(Obtener(VEHICULOS, salida.vehiculoId).siniestro).activo
  /\ EsNulo(Val(Obtener(VEHICULOS, salida.vehiculoId).siniestro).horaCierre)
  /\ Leer(ESTADO_CORTE, salida.vehiculoId) = "cortado"

\* C8: CloseIncident with any body on a registered vehicle that has no open
\* incident is refused with a 4xx answer, changes neither the registry nor
\* the cutoff state, and starts no resume command and no position lookup.
C8_CerrarSinSiniestroRechaza ==
  [][\A id \in IdsPeticion, body \in BodiesCerrar :
       (/\ PostSiniestroCerrar(id, body)
        /\ Existe(VEHICULOS, id)
        /\ ~Obtener(VEHICULOS, id).modoSiniestro)
       => /\ salida'.tipo = "res" /\ salida'.status \in 400..499
          /\ UNCHANGED <<VEHICULOS, ESTADO_CORTE, archivo, enVuelo>>]_vars

\* C9: OpenIncident on a vehicle whose incident is already open stores the
\* request's causa and canal and keeps the horaInicio of the first open.
C9_ReabrirConservaHoraInicio ==
  [][\A id \in IdsPeticion, body \in BodiesIniciar :
       (/\ PostSiniestroIniciar(id, body)
        /\ Existe(VEHICULOS, id)
        /\ Obtener(VEHICULOS, id).activo
        /\ Obtener(VEHICULOS, id).modoSiniestro)
       => LET antes == Val(Obtener(VEHICULOS, id).siniestro)
              despues == Val(Obtener(VEHICULOS', id).siniestro)
          IN /\ despues.causa = ONull(body.causa)
             /\ despues.canal = ONull(body.canal)
             /\ despues.horaInicio = antes.horaInicio]_vars

\* C10: when the command of Cutoff or of Resume fails, the request answers
\* 500 and the cutoff state, the registry and the geofence state are
\* unchanged.
C10_ComandoFallidoSinCambio ==
  [][\A r \in enVuelo, cmd \in ResultadosComando("d1") :
       (/\ PostCorte_comando(r, cmd) \/ PostReanudar_comando(r, cmd)
        /\ cmd.error)
       => /\ salida'.tipo = "res" /\ salida'.status = 500
          /\ enVuelo' = enVuelo \ {r}
          /\ UNCHANGED <<ESTADO_CORTE, VEHICULOS, ESTADO_ZONA, archivo>>]_vars

\* a Resume has just failed on a cut vehicle, or a Cutoff on a normal one
C10_Witness ==
  /\ salida.tipo = "res" /\ salida.status = 500
  /\ \/ salida.ruta = "reanudar" /\ Leer(ESTADO_CORTE, salida.vehiculoId) = "cortado"
     \/ salida.ruta = "corte" /\ Leer(ESTADO_CORTE, salida.vehiculoId) = "normal"

---------------------------------------------------------------------------
(* Cutoff and resume in either implementation *)

NextCorte ==
  \/ \E body \in BodiesAlta : PostVehiculos(body)
  \/ \E r \in enVuelo, dev \in ResultadosDevice : PostVehiculos_device(r, dev)
  \/ \E id \in IdsPeticion : PostCorte(id)
  \/ \E r \in enVuelo, pos \in ResultadosPosicion(Latitudes) : PostCorte_velocidad(r, pos)
  \/ \E r \in enVuelo, cmd \in ResultadosComando("d1") : PostCorte_comando(r, cmd)
  \/ \E id \in IdsPeticion : PostReanudar(id)
  \/ \E r \in enVuelo, cmd \in ResultadosComando("d1") : PostReanudar_comando(r, cmd)
  \/ \E body \in BodiesAlta : PostVehiculosB(body)
  \/ \E r \in enVuelo, dev \in ResultadosDeviceB : PostVehiculosB_device(r, dev)
  \/ \E id \in IdsPeticion, motivo \in Motivos : PostInactivarB(id, motivo)
  \/ \E id \in IdsPeticion : PostCorteB(id)
  \/ \E r \in enVuelo, pos \in ResultadosPosicionB(Latitudes) : PostCorteB_posicion(r, pos)
  \/ \E r \in enVuelo, cmd \in ResultadosComandoB : PostCorteB_comando(r, cmd)
  \/ Tic

SpecCorte == InitLimites /\ [][NextCorte]_vars

\* C11: in both implementations, when the position lookup that precedes the
\* cutoff command throws, the handler goes on to send the command with no
\* speed; when that command is accepted the cutoff state becomes 'cortado'
\* and the response reports velocidad_kmh null.
C11_CorteSinVelocidad ==
  [][/\ \A r \in enVuelo, pos \in ResultadosPosicion(Latitudes) :
          (/\ pos.error
           /\ PostCorte_velocidad(r, pos) \/ PostCorteB_posicion(r, pos))
          => \E q \in enVuelo' :
               q.ruta = "corte" /\ q.vehiculoId = r.vehiculoId /\ q.pc = "comando"
     /\ \A r \in enVuelo, cmd \in ResultadosComando("d1") :
          (/\ ~cmd.error
           /\ EsA
           /\ r.ruta = "corte" /\ r.pc = "comando"
           /\ EsNulo(r.loc.velocidadKmh)
           /\ PostCorte_comando(r, cmd))
          => /\ Leer(ESTADO_CORTE', r.vehiculoId) = "cortado"
             /\ salida'.status = 200
             /\ EsNulo(salida'.cuerpo.velocidad_kmh)]_vars

\* the last command the provider accepted is a cutoff
TrasCorte == ~EsNulo(ultimoComando) /\ Val(ultimoComando).type = "engineStop"

\* C12 as claimed: when a Resume succeeds and the last accepted command was
\* the Cutoff, the cutoff state is 'normal' and the identifier of the resume
\* command differs from the identifier of the cutoff command.
C12_IdentificadoresDistintos ==
  [][\A r \in enVuelo, cmd \in ResultadosComando("d1") :
       (/\ ~cmd.error
        /\ TrasCorte
        /\ PostReanudar_comando(r, cmd))
       => /\ Leer(ESTADO_CORTE', r.vehiculoId) = "normal"
          /\ salida'.cuerpo.comandoId # Val(ultimoComando).id]_vars

\* C12 amended: an accepted Cutoff leaves 'cortado' and an accepted Resume
\* that follows it leaves 'normal'; each response reports as comandoId the
\* identifier the provider returned for its own command.
C12_IdentificadoresDelProveedor ==
  [][\A r \in enVuelo, cmd \in ResultadosComando("d1") :
       /\ (~cmd.error /\ PostCorte_comando(r, cmd))
            => /\ Leer(ESTADO_CORTE', r.vehiculoId) = "cortado"
               /\ salida'.cuerpo.comandoId = Val(cmd.command).id
       /\ (~cmd.error /\ TrasCorte /\ PostReanudar_comando(r, cmd))
            => /\ Leer(ESTADO_CORTE', r.vehiculoId) = "normal"
               /\ salida'.cuerpo.comandoId = Val(cmd.command).id
               /\ ultimoComando' = Algo([type |-> "engineResume",
                                         id |-> Val(cmd.command).id])]_vars

\* a Resume has just been confirmed with the provider's identifier and the
\* vehicle is back to 'normal'
C12_Witness ==
  /\ salida.tipo = "res" /\ salida.ruta = "reanudar" /\ salida.status = 200
  /\ Leer(ESTADO_CORTE, salida.vehiculoId) = "normal"
  /\ ultimoComando = Algo([type |-> "engineResume", id |-> salida.cuerpo.comandoId])

---------------------------------------------------------------------------
(* Sweeps over two vehicles, either implementation *)

\* Mondays from 06:00 to 22:00
BodyZonaLarga == [BodyZonaBase EXCEPT !.horaInicio = "06:00", !.horaFin = "22:00"]

\* the zone of a body, centred at latitude 0
ZonaInicial(impl, body) ==
  LET position == [latitude |-> 0, longitude |-> 0, speed |-> Nulo] IN
  IF impl = "A" THEN NuevaZona(body, position)
  ELSE NuevaZonaB(body, position)

\* a vehicle as registration and zone configuration leave it in vehiculos.json
VehiculoInicial(impl, contratoId, uniqueId, body) ==
  IF impl = "A"
    THEN [contratoId |-> contratoId, tipoCliente |-> "individual", numeroUnidad |-> 1,
          uniqueId |-> uniqueId, activo |-> TRUE, motivoInactivacion |-> "null",
          zonaSegura |-> Algo(ZonaInicial(impl, body)), modoSiniestro |-> FALSE,
          siniestro |-> Nulo]
    ELSE [contratoId |-> contratoId, tipoCliente |-> "individual", uniqueId |-> uniqueId,
          traccarDeviceId |-> 11, activo |-> TRUE, motivo_baja |-> "null",
          zonaSegura |-> Algo(ZonaInicial(impl, body)), siniestro |-> Nulo,
          estado_corte |-> "undefined"]

\* vehiculos.json with two vehicles, each with an enabled zone
RegistroInicial(impl) ==
  <<[id |-> "c1", v |-> VehiculoInicial(impl, "c1", "d1", BodyZonaBase)],
    [id |-> "c2", v |-> VehiculoInicial(impl, "c2", "d2", BodyZonaLarga)]>>

\* The process after start-up with a vehiculos.json that holds registro: A
\* loads the file into VEHICULOS and starts with empty ESTADO_CORTE and
\* ESTADO_ZONA, B reads the file on every request.
ArranqueConArchivo(env, registro) ==
  /\ entorno = env
  /\ VEHICULOS = IF env.impl = "A" THEN registro ELSE <<>>
  /\ ESTADO_CORTE = <<>>
  /\ ESTADO_ZONA = <<>>
  /\ archivo = registro
  /\ enVuelo = {}
  /\ barrido = BarridoIdle
  /\ barrido2 = BarridoIdle
  /\ ultimoComando = Nulo
  /\ reloj = 0
  /\ salida = Nada

InitBarrido ==
  \E impl \in {"A", "B"} :
    ArranqueConArchivo([impl |-> impl, ORQ_EVENT_URL |-> "http://orq",
                        ZONA_SEGURA_INTERVALO_SEGUNDOS |-> Algo(60)],
                       RegistroInicial(impl))

NextBarrido ==
  \/ \E id \in IdsPeticion2 : PostInactivar(id, "impago")
  \/ \E id \in IdsPeticion2 : PostZonaSeguraDesactivar(id)
  \/ \E ahoraLocal \in Ahoras : Barrido(ahoraLocal)
  \/ \E pos \in ResultadosPosicion(Latitudes) : Barrido_posicion(pos)
  \/ \E entregado \in BOOLEAN : Barrido_post(entregado)
  \/ \E id \in IdsPeticion2 : PostInactivarB(id, "impago")
  \/ \E id \in IdsPeticion2 : PostZonaSeguraDesactivarB(id)
  \/ MotorZonaSegura
  \/ \E pos \in ResultadosPosicionB(Latitudes), dtLocal \in Ahoras :
       MotorZonaSegura_posicion(pos, dtLocal)
  \/ \E entregado \in BOOLEAN : MotorZonaSegura_post(entregado)

SpecBarrido == InitBarrido /\ [][NextBarrido]_vars

\* the registry the running implementation reads
Registro == IF EsA THEN VEHICULOS ELSE archivo

\* the vehicle is registered, active, has a device identifier and a zone with
\* activo = true
Elegible(reg, id) ==
  /\ Existe(reg, id)
  /\ LET c == Obtener(reg, id) IN
       /\ c.activo
       /\ IF EsA THEN c.uniqueId # "null" ELSE c.traccarDeviceId # 0
       /\ ~EsNulo(c.zonaSegura)
       /\ Val(c.zonaSegura).activo

\* the geofence-alert state kept for a vehicle: ESTADO_ZONA[id] in A, the
\* zone's ultimaAlertaActiva in B
EstadoAlerta(ez, reg, id) ==
  IF EsA THEN EstadoZonaDe(ez, id)
  ELSE IF Existe(reg, id) /\ ~EsNulo(Obtener(reg, id).zonaSegura)
    THEN IF Val(Obtener(reg, id).zonaSegura).ultimaAlertaActiva THEN "alerta" ELSE "sin_alerta"
  ELSE "sin_zona"

\* a step of a sweep
PasoBarrido ==
  \/ \E ahoraLocal \in Ahoras : Barrido(ahoraLocal)
  \/ \E pos \in ResultadosPosicion(Latitudes) : Barrido_posicion(pos)
  \/ \E entregado \in BOOLEAN : Barrido_post(entregado)
  \/ MotorZonaSegura
  \/ \E pos \in ResultadosPosicionB(Latitudes), dtLocal \in Ahoras :
       MotorZonaSegura_posicion(pos, dtLocal)
  \/ \E entregado \in BOOLEAN : MotorZonaSegura_post(entregado)

\* the sweep is suspended in an await made for one vehicle
BarridoEnVehiculo(b) == b.pc \in {"posicion", "posicionB", "postB"}

\* C13: in both implementations a sweep starts a position lookup only for a
\* vehicle that is active, has a device and has a zone with activo = true;
\* it changes the geofence-alert state only of such a vehicle or of the one
\* whose lookup it is resuming from, and notifies only for the latter.
C13_BarridoSoloElegibles ==
  [][PasoBarrido =>
       /\ (barrido'.pc \in {"posicion", "posicionB"} /\ barrido' # barrido)
            => Elegible(Registro, barrido'.vehiculoId)
       /\ \A id \in IdsPeticion2 :
            EstadoAlerta(ESTADO_ZONA', Registro', id) # EstadoAlerta(ESTADO_ZONA, Registro, id)
              => \/ Elegible(Registro, id)
                 \/ BarridoEnVehiculo(barrido) /\ barrido.vehiculoId = id
       /\ salida'.tipo = "evento"
            => BarridoEnVehiculo(barrido) /\ salida'.vehiculoId = barrido.vehiculoId]_vars

\* the entries of a sequence
Elementos(seq) == {seq[i] : i \in 1..Len(seq)}

\* C14: in A, when the position lookup of one vehicle throws during a sweep,
\* the geofence state of that vehicle is unchanged, nothing is notified, and
\* every eligible vehicle still to visit is either marked in this step, is
\* the one whose position is now being looked up, or is still to visit.
C14_FalloDePosicionNoDetiene ==
  [][\A pos \in ResultadosPosicion(Latitudes) :
       (/\ pos.error
        /\ EsA
        /\ barrido.pc = "posicion"
        /\ Barrido_posicion(pos))
       => /\ EstadoZonaDe(ESTADO_ZONA', barrido.vehiculoId)
               = EstadoZonaDe(ESTADO_ZONA, barrido.vehiculoId)
          /\ salida'.tipo # "evento"
          /\ \A id \in Elementos(barrido.pendientes) :
               Elegible(VEHICULOS, id)
                 => \/ EstadoZonaDe(ESTADO_ZONA', id) = "fuera_horario"
                    \/ barrido'.pc = "posicion" /\ barrido'.vehiculoId = id
                    \/ barrido'.pc = "posicion" /\ id \in Elementos(barrido'.pendientes)]_vars

\* the sweep is looking up the second vehicle while the first, eligible, has
\* no verdict: its lookup gave none
C14_Witness ==
  /\ EsA
  /\ barrido.pc = "posicion" /\ barrido.vehiculoId = "c2"
  /\ Elegible(VEHICULOS, "c1")
  /\ EstadoZonaDe(ESTADO_ZONA, "c1") = "desconocido"

\* C15: in A, the step that notifies stores 'fuera' for the vehicle; when the
\* delivery then fails, the stored state of the vehicle is left as it is and
\* the sweep goes on with the eligible vehicles still to visit; and no sweep
\* step notifies for a vehicle whose stored state is 'fuera'.
C15_EntregaFallidaSinReenvio ==
  [][/\ (EsA /\ salida'.tipo = "evento")
        => /\ EstadoZonaDe(ESTADO_ZONA, salida'.vehiculoId) # "fuera"
           /\ EstadoZonaDe(ESTADO_ZONA', salida'.vehiculoId) = "fuera"
     /\ (/\ EsA
         /\ barrido.pc = "post"
         /\ Barrido_post(FALSE))
        => /\ EstadoZonaDe(ESTADO_ZONA', barrido.vehiculoId)
                = EstadoZonaDe(ESTADO_ZONA, barrido.vehiculoId)
           /\ \A id \in Elementos(barrido.pendientes) :
                Elegible(VEHICULOS, id)
                  => \/ EstadoZonaDe(ESTADO_ZONA', id) = "fuera_horario"
                     \/ barrido'.pc = "posicion" /\ barrido'.vehiculoId = id
                     \/ barrido'.pc = "posicion" /\ id \in Elementos(barrido'.pendientes)]_vars

\* the delivery for the first vehicle has just failed, the vehicle is 'fuera'
\* and the sweep is looking up the second vehicle
C15_Witness ==
  /\ EsA
  /\ salida = Registro_entrega("c1", FALSE)
  /\ EstadoZonaDe(ESTADO_ZONA, "c1") = "fuera"
  /\ barrido.pc = "posicion" /\ barrido.vehiculoId = "c2"

---------------------------------------------------------------------------
(* Zone checks next to sweeps, either implementation *)

\* a step of a check-zona-segura request
PasoChequeo ==
  \/ \E id \in IdsPeticion, ahoraLocal \in Ahoras : GetCheckZonaSegura(id, ahoraLocal)
  \/ \E r \in enVuelo, pos \in ResultadosPosicion(Latitudes) :
       GetCheckZonaSegura_posicion(r, pos)
  \/ \E id \in IdsPeticion : GetCheckZonaSeguraB(id)
  \/ \E r \in enVuelo, pos \in ResultadosPosicionB(Latitudes), dtLocal \in Ahoras :
       GetCheckZonaSeguraB_posicion(r, pos, dtLocal)

NextChequeo ==
  \/ \E id \in IdsPeticion, ahoraLocal \in Ahoras : GetCheckZonaSegura(id, ahoraLocal)
  \/ \E r \in enVuelo, pos \in ResultadosPosicion(Latitudes) :
       GetCheckZonaSegura_posicion(r, pos)
  \/ \E id \in IdsPeticion : GetCheckZonaSeguraB(id)
  \/ \E r \in enVuelo, pos \in ResultadosPosicionB(Latitudes), dtLocal \in Ahoras :
       GetCheckZonaSeguraB_posicion(r, pos, dtLocal)
  \/ \E id \in IdsPeticion : PostInactivar(id, "impago")
  \/ \E id \in IdsPeticion : PostZonaSeguraDesactivar(id)
  \/ \E ahoraLocal \in Ahoras : Barrido(ahoraLocal)
  \/ \E pos \in ResultadosPosicion(Latitudes) : Barrido_posicion(pos)
  \/ \E entregado \in BOOLEAN : Barrido_post(entregado)
  \/ \E id \in IdsPeticion : PostInactivarB(id, "impago")
  \/ \E id \in IdsPeticion : PostZonaSeguraDesactivarB(id)
  \/ MotorZonaSegura
  \/ \E pos \in ResultadosPosicionB(Latitudes), dtLocal \in Ahoras :
       MotorZonaSegura_posicion(pos, dtLocal)
  \/ \E entregado \in BOOLEAN : MotorZonaSegura_post(entregado)

SpecChequeo == InitBarrido /\ [][NextChequeo]_vars

\* C16: in both implementations no step of GET check-zona-segura changes the
\* registry, the file, the cutoff state or the geofence-alert state of any
\* vehicle, and none sends a notification.
C16_ChequeoSoloLee ==
  [][PasoChequeo =>
       /\ UNCHANGED <<VEHICULOS, ESTADO_CORTE, ESTADO_ZONA, archivo>>
       /\ salida'.tipo # "evento"]_vars

\* a check has just answered that the vehicle is outside its zone while the
\* stored geofence-alert state says otherwise
C16_Witness ==
  /\ salida.tipo = "res" /\ salida.ruta = "check-zona-segura" /\ salida.status = 200
  /\ salida.cuerpo.tiene_zona_segura /\ salida.cuerpo.fuera_de_zona
  /\ EstadoAlerta(ESTADO_ZONA, Registro, salida.vehiculoId) \in {"dentro", "sin_alerta"}

\* the day code of a luxon weekday, 1 = Monday .. 7 = Sunday
DiaDe(weekday) == <<"LU", "MA", "MI", "JU", "VI", "SA", "DO">>[weekday]

\* the vehicle is eligible and the days of its zone leave out the day of dt
FueraDeDia(id, dt) ==
  /\ Elegible(VEHICULOS, id)
  /\ ~Includes(Val(Obtener(VEHICULOS, id).zonaSegura).diasSemana, DiaDe(dt.weekday))

\* what a sweep step does with a vehicle that is out of its days: it is
\* marked 'fuera_horario' or is still to be visited, and no position lookup
\* starts for it
MarcadoFueraDeHorario(id) ==
  /\ \/ EstadoZonaDe(ESTADO_ZONA', id) = "fuera_horario"
     \/ barrido'.pc = "posicion" /\ id \in Elementos(barrido'.pendientes)
  /\ ~(barrido'.pc = "posicion" /\ barrido' # barrido /\ barrido'.vehiculoId = id)

\* C17: in A, a sweep that reaches an eligible vehicle whose zone days do not
\* include the weekday of the sweep's clock stores 'fuera_horario' for it and
\* starts no position lookup for it, whatever its stored state; and a sweep
\* never notifies for a vehicle whose zone days leave out that weekday.
C17_DiaInactivoFueraHorario ==
  [][/\ \A ahoraLocal \in Ahoras :
          (EsA /\ Barrido(ahoraLocal))
            => \A id \in IdsPeticion2 :
                 FueraDeDia(id, ahoraLocal) => MarcadoFueraDeHorario(id)
     /\ (/\ EsA
         /\ barrido.pc \in {"posicion", "post"}
         /\ \/ \E pos \in ResultadosPosicion(Latitudes) : Barrido_posicion(pos)
            \/ \E entregado \in BOOLEAN : Barrido_post(entregado))
        => /\ \A id \in Elementos(barrido.pendientes) :
                FueraDeDia(id, barrido.ahoraLocal) => MarcadoFueraDeHorario(id)
           /\ salida'.tipo = "evento"
                => Includes(barrido.zona.diasSemana, DiaDe(barrido.ahoraLocal.weekday))]_vars

\* the second vehicle, whose window covers every modelled hour, is eligible
\* and stands at 'fuera_horario': a sweep met it on a day off
C17_Witness ==
  /\ EsA
  /\ Elegible(VEHICULOS, "c2")
  /\ EstadoZonaDe(ESTADO_ZONA, "c2") = "fuera_horario"

---------------------------------------------------------------------------
(* Time windows that are not HH:mm, either implementation *)

\* horaInicio as a request can leave it in a zone: HH:mm, or a string that
\* passes the non-empty check without being HH:mm
HorasInicio == {"08:00", "8"}

InitVentana ==
  \E impl \in {"A", "B"}, horaInicio \in HorasInicio :
    ArranqueConArchivo(
      [impl |-> impl, ORQ_EVENT_URL |-> "http://orq", ZONA_SEGURA_INTERVALO_SEGUNDOS |-> Algo(60)],
      <<[id |-> "c1",
         v |-> VehiculoInicial(impl, "c1", "d1",
                               [BodyZonaBase EXCEPT !.horaInicio = horaInicio])]>>)

NextVentana ==
  \/ \E id \in IdsPeticion, ahoraLocal \in Ahoras : GetCheckZonaSegura(id, ahoraLocal)
  \/ \E r \in enVuelo, pos \in ResultadosPosicion(Latitudes) :
       GetCheckZonaSegura_posicion(r, pos)
  \/ \E ahoraLocal \in Ahoras : Barrido(ahoraLocal)
  \/ \E pos \in ResultadosPosicion(Latitudes) : Barrido_posicion(pos)
  \/ \E entregado \in BOOLEAN : Barrido_post(entregado)
  \/ \E id \in IdsPeticion : GetCheckZonaSeguraB(id)
  \/ \E r \in enVuelo, pos \in ResultadosPosicionB(Latitudes), dtLocal \in Ahoras :
       GetCheckZonaSeguraB_posicion(r, pos, dtLocal)
  \/ MotorZonaSegura
  \/ \E pos \in ResultadosPosicionB(Latitudes), dtLocal \in Ahoras :
       MotorZonaSegura_posicion(pos, dtLocal)
  \/ \E entregado \in BOOLEAN : MotorZonaSegura_post(entregado)

SpecVentana == InitVentana /\ [][NextVentana]_vars

\* a time of day written as HH:mm
HoraBienFormada(s) == s \in {"06:00", "08:00", "18:00", "22:00"}

\* the zone is enabled, its window is not two HH:mm times, and dt falls on
\* one of its days
VentanaMalformadaEnDia(zona, dt) ==
  /\ zona.activo
  /\ ~(HoraBienFormada(zona.horaInicio) /\ HoraBienFormada(zona.horaFin))
  /\ Includes(zona.diasSemana, DiaDe(dt.weekday))

\* C18: in both implementations a window that is not two HH:mm times applies
\* at any time of an active day: the check and the sweep go on to look up the
\* position of the vehicle, the check reports aplica_ventana true, and a
\* vehicle the sweep finds outside with no alert pending is notified.
C18_VentanaMalformadaAplica ==
  [][/\ \A id \in IdsPeticion, ahoraLocal \in Ahoras :
          (/\ EsA
           /\ Elegible(VEHICULOS, id)
           /\ VentanaMalformadaEnDia(Val(Obtener(VEHICULOS, id).zonaSegura), ahoraLocal)
           /\ GetCheckZonaSegura(id, ahoraLocal) \/ Barrido(ahoraLocal))
          => \/ \E r \in enVuelo' \ enVuelo :
                  r.ruta = "check-zona-segura" /\ r.vehiculoId = id /\ r.pc = "posicion"
             \/ barrido'.pc = "posicion" /\ barrido'.vehiculoId = id
     /\ \A r \in enVuelo, pos \in ResultadosPosicionB(Latitudes), dtLocal \in Ahoras :
          (/\ EsB
           /\ ~pos.error
           /\ VentanaMalformadaEnDia(r.loc.zona, dtLocal)
           /\ GetCheckZonaSeguraB_posicion(r, pos, dtLocal))
          => salida'.cuerpo.aplica_ventana
     /\ \A pos \in ResultadosPosicionB(Latitudes), dtLocal \in Ahoras :
          (/\ EsB
           /\ barrido.pc = "posicionB"
           /\ ~pos.error
           /\ VentanaMalformadaEnDia(barrido.zona, dtLocal)
           /\ Veredicto(barrido.zona, Val(pos.position)) = "fuera"
           /\ ~barrido.zona.ultimaAlertaActiva
           /\ MotorZonaSegura_posicion(pos, dtLocal))
          => salida'.tipo = "evento"]_vars

---------------------------------------------------------------------------
(* Implementation A across a restart *)

InitReinicio ==
  ArranqueConArchivo(
    [impl |-> "A", ORQ_EVENT_URL |-> "http://orq", ZONA_SEGURA_INTERVALO_SEGUNDOS |-> Algo(60)],
    <<[id |-> "c1", v |-> VehiculoInicial("A", "c1", "d1", BodyZonaBase)]>>)

NextReinicio ==
  \/ \E id \in IdsPeticion : PostCorte(id)
  \/ \E r \in enVuelo, pos \in ResultadosPosicion(Latitudes) : PostCorte_velocidad(r, pos)
  \/ \E r \in enVuelo, cmd \in ResultadosComando("d1") : PostCorte_comando(r, cmd)
  \/ \E id \in IdsPeticion : PostReanudar(id)
  \/ \E r \in enVuelo, cmd \in ResultadosComando("d1") : PostReanudar_comando(r, cmd)
  \/ \E id \in IdsPeticion : GetEstadoCorte(id)
  \/ \E ahoraLocal \in Ahoras : Barrido(ahoraLocal)
  \/ \E pos \in ResultadosPosicion(Latitudes) : Barrido_posicion(pos)
  \/ \E entregado \in BOOLEAN : Barrido_post(entregado)
  \/ Reinicio

SpecReinicio == InitReinicio /\ [][NextReinicio]_vars

\* ESTADO_CORTE[vehiculoId] || 'normal', what estado-corte reports
EstadoCorteDe(ec, id) == IF Leer(ec, id) = "undefined" THEN "normal" ELSE Leer(ec, id)

\* C19: in A, a restart keeps the cutoff state and the geofence state of
\* every vehicle: each is after the restart what it was before it.
C19_EstadoDuradero ==
  [][Reinicio =>
       \A id \in IdsPeticion :
         /\ EstadoCorteDe(ESTADO_CORTE', id) = EstadoCorteDe(ESTADO_CORTE, id)
         /\ EstadoZonaDe(ESTADO_ZONA', id) = EstadoZonaDe(ESTADO_ZONA, id)]_vars

---------------------------------------------------------------------------
(* Implementation A, sweeps that overlap *)

InitSolape ==
  ArranqueConArchivo(
    [impl |-> "A", ORQ_EVENT_URL |-> "http://orq", ZONA_SEGURA_INTERVALO_SEGUNDOS |-> Algo(60)],
    RegistroInicial("A"))

\* both sweeps read a clock inside the windows of the two zones
NextSolape ==
  \/ \E ahoraLocal \in AhorasEnVentana : Barrido(ahoraLocal)
  \/ \E pos \in ResultadosPosicion(Latitudes) : Barrido_posicion(pos)
  \/ \E entregado \in BOOLEAN : Barrido_post(entregado)
  \/ \E ahoraLocal \in AhorasEnVentana : Barrido2(ahoraLocal)
  \/ \E pos \in ResultadosPosicion(Latitudes) : Barrido2_posicion(pos)
  \/ \E entregado \in BOOLEAN : Barrido2_post(entregado)

SpecSolape == InitSolape /\ [][NextSolape]_vars

\* C20: in A, also when a second sweep starts while the first is suspended,
\* a notification goes out only on the step that takes the stored state of
\* the vehicle from 'dentro' to 'fuera', hence once per edge.
C20_UnaNotificacionPorFlanco ==
  [][salida'.tipo = "evento"
       => /\ EstadoZonaDe(ESTADO_ZONA, salida'.vehiculoId) = "dentro"
          /\ EstadoZonaDe(ESTADO_ZONA', salida'.vehiculoId) = "fuera"]_vars

---------------------------------------------------------------------------
(* Requests that race the sweep, implementation A *)

\* while sweep b waits for the position of b.vehiculoId, a request replaced or
\* disabled the zone it captured, or reset the state it read
ZonaCambiadaEnEspera(b) ==
  /\ b.pc = "posicion"
  /\ Existe(VEHICULOS, b.vehiculoId)
  /\ \/ Obtener(VEHICULOS, b.vehiculoId).zonaSegura # Algo(b.zona)
     \/ /\ EstadoZonaDe(ESTADO_ZONA, b.vehiculoId) = "desconocido"
        /\ b.prevEstado # "desconocido"

\* C21: in A, when ConfigureZone or DeactivateZone of a vehicle completed
\* while the sweep was suspended in that vehicle's position lookup, the
\* resumed sweep leaves the stored geofence state of the vehicle as the
\* request left it and sends no notification.
C21_BarridoNoPisaReinicio ==
  [][\A pos \in ResultadosPosicion(Latitudes) :
       (/\ ZonaCambiadaEnEspera(barrido)
        /\ Barrido_posicion(pos))
       => /\ EstadoZonaDe(ESTADO_ZONA', barrido.vehiculoId)
               = EstadoZonaDe(ESTADO_ZONA, barrido.vehiculoId)
          /\ salida'.tipo # "evento"]_vars

---------------------------------------------------------------------------
(* Requests on different vehicles, implementation B *)

InitRegistroB ==
  ArranqueConArchivo([impl |-> "B", ORQ_EVENT_URL |-> "http://orq",
                      ZONA_SEGURA_INTERVALO_SEGUNDOS |-> Algo(60)],
                     RegistroInicial("B"))

\* the position the provider returns for a request of this specification
LatitudesRegistro == {600}

NextRegistroB ==
  \/ \E id \in IdsPeticion2 : PostCorteB(id)
  \/ \E r \in enVuelo, pos \in ResultadosPosicionB(LatitudesRegistro) :
       PostCorteB_posicion(r, pos)
  \/ \E r \in enVuelo, cmd \in ResultadosComandoB : PostCorteB_comando(r, cmd)
  \/ \E id \in IdsPeticion : PostZonaSeguraB(id, [BodyZonaBase EXCEPT !.forzarSobreEscritura = TRUE])
  \/ \E r \in enVuelo, pos \in ResultadosPosicionB(LatitudesRegistro) :
       PostZonaSeguraB_posicion(r, pos)
  \/ \E id \in IdsPeticion2 : PostInactivarB(id, "impago")

SpecRegistroB == InitRegistroB /\ [][NextRegistroB]_vars

\* every vehicle other than id has in vehiculos.json after the step the record
\* it had before it
OtrosRegistrosIntactos(id) ==
  \A y \in Elementos(Claves(archivo)) \ {id} :
    /\ Existe(archivo', y)
    /\ Obtener(archivo', y) = Obtener(archivo, y)

\* C22: in B, the step of a Cutoff or ConfigureZone request on a vehicle that
\* writes the registry back after its provider call leaves the persisted
\* record of every other vehicle as it is at that moment, also when a request
\* on the other vehicle was persisted during the provider call.
C22_EscrituraSoloDelVehiculo ==
  [][\A r \in enVuelo :
       (\/ \E cmd \in ResultadosComandoB : PostCorteB_comando(r, cmd)
        \/ \E pos \in ResultadosPosicionB(LatitudesRegistro) :
             PostZonaSeguraB_posicion(r, pos))
       => OtrosRegistrosIntactos(r.vehiculoId)]_vars

---------------------------------------------------------------------------
(* First evaluation of a zone, implementation B *)

\* the zone the sweep is evaluating is the stored zone of the vehicle and its
\* ultimaAlertaActiva is false, which is how configuration and activation
\* leave it; B keeps nothing else that tells a zone never evaluated from one
\* last seen inside
ZonaSinAlertaPrevia(b) ==
  /\ b.pc = "posicionB"
  /\ ~b.zona.ultimaAlertaActiva
  /\ Existe(archivo, b.vehiculoId)
  /\ Obtener(archivo, b.vehiculoId).zonaSegura = Algo(b.zona)

\* C23: in B, the sweep's evaluation of a zone in the state configuration or
\* activation left it (ultimaAlertaActiva = false) sends no breach
\* notification, also when the vehicle is outside the internal radius within
\* the window.
C23_PrimeraEvaluacionCallada ==
  [][\A pos \in ResultadosPosicionB(Latitudes), dtLocal \in Ahoras :
       (/\ ZonaSinAlertaPrevia(barrido)
        /\ MotorZonaSegura_posicion(pos, dtLocal))
       => salida'.tipo # "evento"]_vars

---------------------------------------------------------------------------
(* Registration and the existing records *)

\* the step is the completion of a registration, in either implementation
PasoAlta ==
  \E r \in enVuelo :
    \/ \E dev \in ResultadosDevice : PostVehiculos_device(r, dev)
    \/ \E dev \in ResultadosDeviceB : PostVehiculosB_device(r, dev)

\* C24: a successful registration adds a vehicleId the registry did not hold
\* and leaves every existing record as it was, and no step removes a record
\* from the registry.
C24_AltaNoReemplaza ==
  [][/\ \A y \in Elementos(Claves(Registro)) : Existe(Registro', y)
     /\ (PasoAlta /\ salida'.status = 200)
          => /\ Len(Registro') = Len(Registro) + 1
             /\ \A y \in Elementos(Claves(Registro)) :
                  Obtener(Registro', y) = Obtener(Registro, y)]_vars

---------------------------------------------------------------------------
(* The sweep interval *)

\* what parseInt(process.env.ZONA_SEGURA_INTERVALO_SEGUNDOS || '60', 10) gives:
\* NaN for text without leading digits, else the number
IntervalosLeidos == {Nulo, Algo(-5), Algo(0), Algo(60)}

InitIntervalo ==
  \E impl \in {"A", "B"}, s \in IntervalosLeidos :
    ArranqueConArchivo([impl |-> impl, ORQ_EVENT_URL |-> "http://orq",
                        ZONA_SEGURA_INTERVALO_SEGUNDOS |-> s],
                       RegistroInicial(impl))

NextIntervalo ==
  \/ \E id \in IdsPeticion2 : PostInactivar(id, "impago")
  \/ \E id \in IdsPeticion : PostZonaSeguraDesactivar(id)
  \/ \E ahoraLocal \in Ahoras : Barrido(ahoraLocal)
  \/ \E pos \in ResultadosPosicion(Latitudes) : Barrido_posicion(pos)
  \/ \E entregado \in BOOLEAN : Barrido_post(entregado)
  \/ \E id \in IdsPeticion2 : PostInactivarB(id, "impago")
  \/ \E id \in IdsPeticion : PostZonaSeguraDesactivarB(id)
  \/ MotorZonaSegura
  \/ \E pos \in ResultadosPosicionB(Latitudes), dtLocal \in Ahoras :
       MotorZonaSegura_posicion(pos, dtLocal)
  \/ \E entregado \in BOOLEAN : MotorZonaSegura_post(entregado)

SpecIntervalo == InitIntervalo /\ [][NextIntervalo]_vars

\* the configured interval is not a number, or is zero or negative
IntervaloNoPositivo ==
  \/ EsNulo(entorno.ZONA_SEGURA_INTERVALO_SEGUNDOS)
  \/ Val(entorno.ZONA_SEGURA_INTERVALO_SEGUNDOS) <= 0

\* no vehicle has a geofence state that a verdict produced
SinVeredictos ==
  \A id \in Elementos(Claves(Registro)) :
    IF EsA THEN EstadoZonaDe(ESTADO_ZONA, id) = "desconocido"
    ELSE LET zs == Obtener(archivo, id).zonaSegura IN
         EsNulo(zs) \/ ~Val(zs).ultimaAlertaActiva

\* C25: with a sweep interval that is not a number or is <= 0 the scheduler is
\* off in both implementations: no sweep is ever in progress, no geofence
\* state comes from a verdict and nothing is sent to the event endpoint,
\* while requests are still answered.
C25_IntervaloApagaBarrido ==
  IntervaloNoPositivo
    => /\ barrido.pc = "idle"
       /\ barrido2.pc = "idle"
       /\ SinVeredictos
       /\ salida.tipo \notin {"evento", "log"}

\* with the interval not a number, a request has been answered 200
C25_Witness ==
  /\ EsNulo(entorno.ZONA_SEGURA_INTERVALO_SEGUNDOS)
  /\ salida.tipo = "res"
  /\ salida.status = 200
  /\ salida.ruta = "inactivar"

---------------------------------------------------------------------------
(* The verdict at the internal radius, implementation A *)

InitVeredicto ==
  ArranqueConArchivo(
    [impl |-> "A", ORQ_EVENT_URL |-> "http://orq", ZONA_SEGURA_INTERVALO_SEGUNDOS |-> Algo(60)],
    RegistroInicial("A"))

NextVeredicto ==
  \/ \E id \in IdsPeticion2 : PostInactivar(id, "impago")
  \/ \E ahoraLocal \in Ahoras : Barrido(ahoraLocal)
  \/ \E pos \in ResultadosPosicion(LatitudesBorde) : Barrido_posicion(pos)
  \/ \E entregado \in BOOLEAN : Barrido_post(entregado)

SpecVeredicto == InitVeredicto /\ [][NextVeredicto]_vars

\* the distance between a position and the centre of a zone
Distancia(zona, position) ==
  IF position.latitude >= zona.centro.lat
    THEN position.latitude - zona.centro.lat
    ELSE zona.centro.lat - position.latitude

\* C26: in A, the sweep stores for an in-window vehicle whose position was
\* fetched 'fuera' exactly when the distance to the centre is strictly greater
\* than radio_interno_m and 'dentro' otherwise, so a position on the internal
\* radius or between the client radius and the internal radius gives 'dentro'.
C26_VeredictoEstricto ==
  [][\A pos \in ResultadosPosicion(LatitudesBorde) :
       (/\ barrido.pc = "posicion"
        /\ ~pos.error
        /\ ~EsNulo(pos.position)
        /\ Barrido_posicion(pos))
       => EstadoZonaDe(ESTADO_ZONA', barrido.vehiculoId)
            = IF Distancia(barrido.zona, Val(pos.position)) > barrido.zona.radio_interno_m
                THEN "fuera" ELSE "dentro"]_vars

\* a vehicle found beyond the client radius but not beyond the internal
\* radius is stored as inside
C26_Witness ==
  /\ EsA
  /\ EstadoZonaDe(ESTADO_ZONA, "c1") = "dentro"
  /\ \A l \in LatitudesBorde : l > Val(Obtener(VEHICULOS, "c1").zonaSegura).radio_cliente_m

---------------------------------------------------------------------------
(* The schedule window, implementation A *)

\* windows within a day and across midnight
VentanasHorario == {<<"08:00", "18:00">>, <<"22:00", "06:00">>, <<"18:00", "08:00">>}

DiasHorario == {<<"LU">>, <<"LU", "MA">>, <<"SA", "DO">>}

\* the clock of the sweep: Monday, Tuesday and Sunday, at the bounds of the
\* windows, one minute outside them and between them
AhorasHorario ==
  {[weekday |-> d, hour |-> hm[1], minute |-> hm[2]] :
     d \in {1, 2, 7},
     hm \in {<<2, 0>>, <<6, 0>>, <<6, 1>>, <<7, 59>>, <<8, 0>>,
             <<18, 0>>, <<18, 1>>, <<21, 59>>, <<22, 0>>}}

InitHorario ==
  \E ventana \in VentanasHorario, dias \in DiasHorario :
    ArranqueConArchivo(
      [impl |-> "A", ORQ_EVENT_URL |-> "http://orq", ZONA_SEGURA_INTERVALO_SEGUNDOS |-> Algo(60)],
      <<[id |-> "c1",
         v |-> VehiculoInicial("A", "c1", "d1",
                               [BodyZonaBase EXCEPT !.horaInicio = ventana[1],
                                                    !.horaFin = ventana[2],
                                                    !.diasAccion = dias])]>>)

NextHorario ==
  \/ \E ahoraLocal \in AhorasHorario : Barrido(ahoraLocal)
  \/ \E pos \in ResultadosPosicion(Latitudes) : Barrido_posicion(pos)
  \/ \E entregado \in BOOLEAN : Barrido_post(entregado)

SpecHorario == InitHorario /\ [][NextHorario]_vars

\* minute of the day of a time written HH:mm
MinutoDelDia(s) ==
  CASE s = "06:00" -> 360 [] s = "08:00" -> 480 [] s = "18:00" -> 1080 [] s = "22:00" -> 1320

\* the window of the zone applies at t as the schedule rule states it
VentanaSegunRegla(zona, t) ==
  LET m == t.hour * 60 + t.minute
      ini == MinutoDelDia(zona.horaInicio)
      fin == MinutoDelDia(zona.horaFin)
  IN /\ \E i \in 1..Len(zona.diasSemana) : zona.diasSemana[i] = DiaDe(t.weekday)
     /\ IF ini <= fin THEN ini <= m /\ m <= fin
        ELSE m >= ini \/ m <= fin

\* C27: in A, the sweep started at local time t goes on to look up the
\* position of a vehicle with an enabled zone exactly when the weekday code of
\* t is one of the zone's days and the minute of the day of t is within
\* [start, end] (start <= end) or is >= start or <= end (start > end), bounds
\* included; otherwise it stores 'fuera_horario'.  The weekday is that of t,
\* also in the part of a window after midnight.
C27_VentanaSegunDiaYMinuto ==
  [][\A ahoraLocal \in AhorasHorario :
       (/\ barrido.pc = "idle"
        /\ Barrido(ahoraLocal))
       => LET zona == Val(Obtener(VEHICULOS, "c1").zonaSegura) IN
          IF VentanaSegunRegla(zona, ahoraLocal)
            THEN /\ barrido'.pc = "posicion"
                 /\ barrido'.vehiculoId = "c1"
            ELSE /\ barrido'.pc = "idle"
                 /\ EstadoZonaDe(ESTADO_ZONA', "c1") = "fuera_horario"]_vars

\* a sweep at 06:00 sharp, the end of a window that started at 22:00, is
\* looking up the position
C27_Witness ==
  /\ barrido.pc = "posicion"
  /\ barrido.zona.horaInicio = "22:00"
  /\ barrido.ahoraLocal.hour = 6
  /\ barrido.ahoraLocal.minute = 0

---------------------------------------------------------------------------
(* Cutoff during CloseIncident, implementation A *)

\* requests for c1 that the process has accepted and that wait for the
\* provider: a Cutoff at its speed lookup and a CloseIncident that read a
\* cutoff state other than 'cortado' and is at its audit position lookup
PeticionesAceptadas ==
  {EnEspera("corte", "velocidad", "c1", <<>>, <<>>),
   EnEspera("siniestro/cerrar", "posicion", "c1", [resultado |-> "recuperado"],
            [reanudoMotor |-> FALSE, comandoId |-> Nulo])}

\* the process started with vehiculos.json holding c1, with none, one or both
\* of the requests accepted since
InitCierre ==
  \E aceptadas \in SUBSET PeticionesAceptadas :
    /\ entorno = [impl |-> "A", ORQ_EVENT_URL |-> "http://orq",
                  ZONA_SEGURA_INTERVALO_SEGUNDOS |-> Algo(60)]
    /\ VEHICULOS = <<[id |-> "c1", v |-> VehiculoInicial("A", "c1", "d1", BodyZonaBase)]>>
    /\ archivo = VEHICULOS
    /\ ESTADO_CORTE = <<>>
    /\ ESTADO_ZONA = <<>>
    /\ enVuelo = aceptadas
    /\ barrido = BarridoIdle
    /\ barrido2 = BarridoIdle
    /\ ultimoComando = Nulo
    /\ reloj = 0
    /\ salida = Nada

\* the audit lookup of this specification throws or gives a position
PosicionesCierre ==
  {pos \in ResultadosPosicion(Latitudes) : pos.error \/ ~EsNulo(pos.position)}

NextCierre ==
  \/ \E id \in IdsPeticion : PostCorte(id)
  \/ \E r \in enVuelo, pos \in ResultadosPosicion(Latitudes) : PostCorte_velocidad(r, pos)
  \/ \E r \in enVuelo, cmd \in ResultadosComando("d1") : PostCorte_comando(r, cmd)
  \/ \E id \in IdsPeticion, body \in BodiesIniciar : PostSiniestroIniciar(id, body)
  \/ \E id \in IdsPeticion, body \in BodiesCerrar : PostSiniestroCerrar(id, body)
  \/ \E r \in enVuelo, cmd \in ResultadosComando("d1") : PostSiniestroCerrar_comando(r, cmd)
  \/ \E r \in enVuelo, pos \in PosicionesCierre : PostSiniestroCerrar_posicion(r, pos)
  \/ Tic

SpecCierre == InitCierre /\ [][NextCierre]_vars

\* C28: in A, at the step in which CloseIncident marks the incident closed and
\* answers 200 the cutoff state of the vehicle is 'normal', also when a Cutoff
\* request for the vehicle ran while CloseIncident awaited the audit position.
C28_CierreConEstadoNormal ==
  [][\A r \in enVuelo, pos \in PosicionesCierre :
       PostSiniestroCerrar_posicion(r, pos)
         => EstadoCorteDe(ESTADO_CORTE', r.vehiculoId) = "normal"]_vars

\* the lookups that throw
PosicionesFallidas == {pos \in PosicionesCierre : pos.error}

\* C29: in A, when the audit position lookup of CloseIncident fails the
\* request still answers 200 and the incident is stored closed, with the
\* requested outcome, the closing time and a null last-known position.
C29_CierreSinPosicion ==
  [][\A r \in enVuelo, pos \in PosicionesFallidas :
       PostSiniestroCerrar_posicion(r, pos)
         => LET config == Obtener(VEHICULOS', r.vehiculoId) IN
            /\ salida'.status = 200
            /\ ~config.modoSiniestro
            /\ ~EsNulo(config.siniestro)
            /\ ~Val(config.siniestro).activo
            /\ Val(config.siniestro).resultado = r.body.resultado
            /\ Val(config.siniestro).horaCierre = Algo(reloj)
            /\ EsNulo(Val(config.siniestro).ultimaUbicacionCierre)
            /\ archivo' = VEHICULOS']_vars

\* an incident opened by a request is stored closed without a position, which
\* under SpecCierre happens only when the audit lookup threw
C29_Witness ==
  /\ salida.tipo = "res"
  /\ salida.ruta = "siniestro/cerrar"
  /\ salida.status = 200
  /\ LET siniestro == Obtener(VEHICULOS, "c1").siniestro IN
     /\ ~EsNulo(siniestro)
     /\ ~EsNulo(Val(siniestro).horaInicio)
     /\ ~Val(siniestro).activo
     /\ EsNulo(Val(siniestro).ultimaUbicacionCierre)

---------------------------------------------------------------------------
(* The centre of a new zone, implementation A *)

\* C30: in A, when the position lookup that anchors the centre of a new zone
\* throws or gives no position, ConfigureZone answers with an error and the
\* stored zone, the file and the geofence state stay as they were; when it
\* gives a position the request succeeds and the stored centre is that
\* position.
C30_CentroDeLaPosicion ==
  [][\A r \in enVuelo, pos \in ResultadosPosicion(Latitudes) :
       PostZonaSegura_posicion(r, pos)
         => IF pos.error \/ EsNulo(pos.position)
              THEN /\ salida'.status >= 400
                   /\ VEHICULOS' = VEHICULOS
                   /\ archivo' = archivo
                   /\ ESTADO_ZONA' = ESTADO_ZONA
              ELSE /\ salida'.status = 200
                   /\ Val(Obtener(VEHICULOS', r.vehiculoId).zonaSegura).centro
                        = [lat |-> Val(pos.position).latitude,
                           lon |-> Val(pos.position).longitude]]_vars

\* a request to replace a zone that the sweep had evaluated was answered 500
\* and the zone and its verdict are still stored
C30_Witness ==
  /\ EsA
  /\ salida.tipo = "res"
  /\ salida.ruta = "zona-segura"
  /\ salida.status = 500
  /\ Existe(VEHICULOS, "c1")
  /\ ~EsNulo(Obtener(VEHICULOS, "c1").zonaSegura)
  /\ EstadoZonaDe(ESTADO_ZONA, "c1") \in {"dentro", "fuera"}

---------------------------------------------------------------------------
(* DeactivateZone twice, implementation A *)

---------------------------------------------------------------------------
(* What each request of A writes *)

InitMarco ==
  ArranqueConArchivo(
    [impl |-> "A", ORQ_EVENT_URL |-> "http://orq", ZONA_SEGURA_INTERVALO_SEGUNDOS |-> Algo(60)],
    <<[id |-> "c1", v |-> VehiculoInicial("A", "c1", "d1", BodyZonaBase)]>>)

\* the device identifier a device change asks for
NuevosUniqueId == {"d2"}

\* the bodies of the requests of this specification
BodiesMarco == {[causa |-> "robo", canal |-> "app"]}

CierresMarco == {[resultado |-> "recuperado"]}

MotivosMarco == {"impago"}

\* the speed and audit lookups throw or give a position without speed
PosicionesMarco ==
  {pos \in ResultadosPosicion(LatitudesRegistro) :
     pos.error \/ (~EsNulo(pos.position) /\ EsNulo(Val(pos.position).speed))}

\* the steps of Cutoff, Resume, OpenIncident, CloseIncident, inactivation,
\* reactivation, device change and device release
PasoSinZona ==
  \/ \E id \in IdsPeticion : PostCorte(id)
  \/ \E r \in enVuelo, pos \in PosicionesMarco :
       PostCorte_velocidad(r, pos)
  \/ \E r \in enVuelo, cmd \in ResultadosComando("d1") : PostCorte_comando(r, cmd)
  \/ \E id \in IdsPeticion : PostReanudar(id)
  \/ \E r \in enVuelo, cmd \in ResultadosComando("d1") : PostReanudar_comando(r, cmd)
  \/ \E id \in IdsPeticion, body \in BodiesMarco : PostSiniestroIniciar(id, body)
  \/ \E id \in IdsPeticion, body \in CierresMarco : PostSiniestroCerrar(id, body)
  \/ \E r \in enVuelo, cmd \in ResultadosComando("d1") : PostSiniestroCerrar_comando(r, cmd)
  \/ \E r \in enVuelo, pos \in PosicionesMarco :
       PostSiniestroCerrar_posicion(r, pos)
  \/ \E id \in IdsPeticion, motivo \in MotivosMarco : PostInactivar(id, motivo)
  \/ \E id \in IdsPeticion : PostReactivar(id)
  \/ \E id \in IdsPeticion, u \in NuevosUniqueId : PostModificarUniqueId(id, u)
  \/ \E r \in enVuelo, dev \in ResultadosDevice : PostModificarUniqueId_device(r, dev)
  \/ \E id \in IdsPeticion : PostLiberarDispositivo(id)

\* the steps of DeactivateZone and of the sweep
PasoDeZona ==
  \/ \E id \in IdsPeticion : PostZonaSeguraDesactivar(id)
  \/ \E ahoraLocal \in AhorasEnVentana : Barrido(ahoraLocal)
  \/ \E pos \in ResultadosPosicion(Latitudes) : Barrido_posicion(pos)
  \/ \E entregado \in BOOLEAN : Barrido_post(entregado)

\* requests and sweeps taken one after the other: a request is served while
\* no sweep is suspended, a sweep runs while no request is suspended
NextMarco ==
  \/ barrido.pc = "idle" /\ PasoSinZona
  \/ enVuelo = {} /\ PasoDeZona

SpecMarco == InitMarco /\ [][NextMarco]_vars

\* C32: in A, the steps of Cutoff, Resume, OpenIncident, CloseIncident,
\* inactivation, reactivation, device change and device release leave
\* ESTADO_ZONA of every vehicle unchanged.
C32_SoloZonaEscribeEstadoZona ==
  [][PasoSinZona => ESTADO_ZONA' = ESTADO_ZONA]_vars

\* a Cutoff was answered 200 while the sweep's verdict for c1 is stored
C32_Witness ==
  /\ EstadoZonaDe(ESTADO_ZONA, "c1") = "fuera"
  /\ salida.tipo = "res"
  /\ salida.ruta = "corte"
  /\ salida.status = 200

\* the step is a Cutoff whose command the provider accepted and that stores
\* 'cortado', or a Resume or CloseIncident whose resume command the provider
\* accepted and that stores 'normal'
PasoComandoAceptado ==
  \E r \in enVuelo, cmd \in ResultadosComando("d1") :
    /\ ~cmd.error
    /\ \/ /\ PostCorte_comando(r, cmd)
          /\ EstadoCorteDe(ESTADO_CORTE', r.vehiculoId) = "cortado"
       \/ /\ \/ PostReanudar_comando(r, cmd)
             \/ PostSiniestroCerrar_comando(r, cmd)
          /\ EstadoCorteDe(ESTADO_CORTE', r.vehiculoId) = "normal"

---------------------------------------------------------------------------
(* The re-arm flag of implementation B *)

\* C34: in B, a sweep clears ultimaAlertaActiva only when it finds the vehicle
\* back inside the internal radius; a sweep that finds it still outside, at a
\* time out of the window, leaves the flag set.
C34_AlertaSoloSeBorraDentro ==
  [][\A pos \in ResultadosPosicionB(Latitudes), dtLocal \in Ahoras :
       (/\ EsB
        /\ MotorZonaSegura_posicion(pos, dtLocal)
        /\ EstadoAlerta(ESTADO_ZONA, archivo, barrido.vehiculoId) = "alerta"
        /\ EstadoAlerta(ESTADO_ZONA', archivo', barrido.vehiculoId) = "sin_alerta")
       => /\ ~pos.error
          /\ distanciaMetros(barrido.zona.centro.lat, barrido.zona.centro.lon,
                             Val(pos.position).latitude, Val(pos.position).longitude)
               <= barrido.zona.radio_interno_m]_vars

---------------------------------------------------------------------------
(* ActivateZone in implementation B *)

\* vehiculos.json of B with c1, which has an enabled zone, and c2, which has none
RegistroActivar ==
  <<[id |-> "c1", v |-> VehiculoInicial("B", "c1", "d1", BodyZonaBase)],
    [id |-> "c2", v |-> [VehiculoInicial("B", "c2", "d2", BodyZonaBase)
                           EXCEPT !.zonaSegura = Nulo]]>>

InitActivarB ==
  ArranqueConArchivo([impl |-> "B", ORQ_EVENT_URL |-> "http://orq",
                      ZONA_SEGURA_INTERVALO_SEGUNDOS |-> Algo(60)],
                     RegistroActivar)

NextActivarB ==
  \/ \E id \in IdsPeticion2 : PostZonaSeguraActivarB(id)
  \/ \E id \in IdsPeticion2 : PostZonaSeguraDesactivarB(id)
  \/ \E id \in IdsPeticion2 : PostInactivarB(id, "impago")
  \/ MotorZonaSegura
  \/ \E pos \in ResultadosPosicionB(Latitudes), dtLocal \in Ahoras :
       MotorZonaSegura_posicion(pos, dtLocal)
  \/ \E entregado \in BOOLEAN : MotorZonaSegura_post(entregado)

SpecActivarB == InitActivarB /\ [][NextActivarB]_vars

\* C35: in B, ActivateZone on a registered vehicle with no zone is rejected and
\* changes nothing; on a vehicle with a zone it answers 200 and stores the same
\* zone with activo = true and ultimaAlertaActiva = false, its centre, radii,
\* days and window as they were, and the other vehicles as they were.
C35_ActivarB ==
  [][\A id \in IdsPeticion2 :
       (EsB /\ Existe(archivo, id) /\ PostZonaSeguraActivarB(id))
       => LET vehiculo == Obtener(archivo, id) IN
          IF EsNulo(vehiculo.zonaSegura)
            THEN /\ salida'.status = 409
                 /\ UNCHANGED <<VEHICULOS, ESTADO_CORTE, ESTADO_ZONA, archivo, enVuelo,
                                barrido, barrido2>>
            ELSE /\ salida'.status = 200
                 /\ archivo' = Poner(archivo, id,
                      [vehiculo EXCEPT !.zonaSegura =
                         Algo([Val(vehiculo.zonaSegura)
                                 EXCEPT !.activo = TRUE,
                                        !.ultimaAlertaActiva = FALSE])])]_vars

\* a disabled zone was activated again
C35_Witness ==
  /\ EsB
  /\ salida.tipo = "res"
  /\ salida.ruta = "zona-segura/activar"
  /\ salida.vehiculoId = "c1"
  /\ salida.status = 200
  /\ Val(Obtener(archivo, "c1").zonaSegura).activo
  /\ ~Val(Obtener(archivo, "c1").zonaSegura).ultimaAlertaActiva
  /\ Obtener(archivo, "c1").motivo_baja = "impago"

---------------------------------------------------------------------------
(* Commands and inactive vehicles, implementation A *)

\* C36: in A, no step calls sendCommandToDevice (a handler enters its wait on
\* the command) for a vehicle whose activo is false, whichever operation the
\* handler belongs to.
C36_SinComandoAInactivo ==
  [][EsA => \A r \in enVuelo' \ enVuelo :
       r.pc = "comando" => Obtener(VEHICULOS, r.vehiculoId).activo]_vars

---------------------------------------------------------------------------
(* Devices and activity from an empty registry, implementation A *)

\* registrations of contracts c1 and c2 with devices d1 and d2
BodiesDispositivo ==
  {[contratoId |-> c, tipoCliente |-> "individual", nombreTitular |-> "t1",
    uniqueId |-> u] : c \in {"c1", "c2"}, u \in {"d1", "d2"}}

UniqueIds == {"d1", "d2"}

MotivosValidos == {"impago", "cancelacion"}

\* registrations of d1 for c1 and for c2 that passed their checks against the
\* empty registry and wait for crearOActualizarDeviceEnTraccar
AltasAceptadas ==
  {[ruta |-> "vehiculos", pc |-> "device", vehiculoId |-> c,
    body |-> [contratoId |-> c, tipoCliente |-> "individual",
              nombreTitular |-> "t1", uniqueId |-> "d1"],
    loc |-> [numeroUnidad |-> 1]] : c \in {"c1", "c2"}}

\* the process started with no vehiculos.json, with none, one or both of the
\* registrations accepted since
InitDispositivo ==
  \E aceptadas \in SUBSET AltasAceptadas :
    /\ entorno = [impl |-> "A", ORQ_EVENT_URL |-> "http://orq",
                  ZONA_SEGURA_INTERVALO_SEGUNDOS |-> Algo(60)]
    /\ VEHICULOS = <<>>
    /\ archivo = <<>>
    /\ ESTADO_CORTE = <<>>
    /\ ESTADO_ZONA = <<>>
    /\ enVuelo = aceptadas
    /\ barrido = BarridoIdle
    /\ barrido2 = BarridoIdle
    /\ ultimoComando = Nulo
    /\ reloj = 0
    /\ salida = Nada

NextDispositivo ==
  \/ \E body \in BodiesDispositivo : PostVehiculos(body)
  \/ \E r \in enVuelo, dev \in ResultadosDevice : PostVehiculos_device(r, dev)
  \/ \E id \in IdsPeticion2, motivo \in MotivosValidos : PostInactivar(id, motivo)
  \/ \E id \in IdsPeticion2 : PostReactivar(id)
  \/ \E id \in IdsPeticion2, nuevoUniqueId \in UniqueIds :
       PostModificarUniqueId(id, nuevoUniqueId)
  \/ \E r \in enVuelo, dev \in ResultadosDevice : PostModificarUniqueId_device(r, dev)
  \/ \E id \in IdsPeticion2 : PostLiberarDispositivo(id)

SpecDispositivo == InitDispositivo /\ [][NextDispositivo]_vars

\* C37: in A, starting from an empty registry, no two vehicles hold the same
\* non-null uniqueId, whatever registrations, device changes and releases ran
\* and however they interleaved at their awaits.
C37_UniqueIdUnico ==
  \A i, j \in 1..Len(VEHICULOS) :
    (i # j /\ VEHICULOS[i].v.uniqueId = VEHICULOS[j].v.uniqueId)
      => VEHICULOS[i].v.uniqueId = "null"

\* C38: in A, starting from an empty registry, every vehicle with activo = true
\* has a non-null uniqueId and a null motivoInactivacion, and every vehicle
\* with activo = false has motivoInactivacion 'impago' or 'cancelacion'.
C38_ActivoDispositivoMotivo ==
  \A i \in 1..Len(VEHICULOS) :
    LET config == VEHICULOS[i].v IN
    IF config.activo
      THEN config.uniqueId # "null" /\ config.motivoInactivacion = "null"
      ELSE config.motivoInactivacion \in {"impago", "cancelacion"}

\* c1 was inactivated for cancellation and its device released; c2 holds d1
\* and a reactivation has just succeeded
C38_Witness ==
  /\ Existe(VEHICULOS, "c1") /\ Existe(VEHICULOS, "c2")
  /\ ~Obtener(VEHICULOS, "c1").activo
  /\ Obtener(VEHICULOS, "c1").motivoInactivacion = "cancelacion"
  /\ Obtener(VEHICULOS, "c1").uniqueId = "null"
  /\ Obtener(VEHICULOS, "c2").activo
  /\ Obtener(VEHICULOS, "c2").uniqueId = "d1"
  /\ salida.tipo = "res" /\ salida.ruta = "reactivar" /\ salida.status = 200
  /\ salida.cuerpo.ok

---------------------------------------------------------------------------
(* Geofence state and zone configuration, implementation A *)

\* vehiculos.json of A with c1, which has an enabled zone, and c2, which has none
RegistroEstadoZona ==
  <<[id |-> "c1", v |-> VehiculoInicial("A", "c1", "d1", BodyZonaBase)],
    [id |-> "c2", v |-> [VehiculoInicial("A", "c2", "d2", BodyZonaBase)
                           EXCEPT !.zonaSegura = Nulo]]>>

InitEstadoZona ==
  ArranqueConArchivo([impl |-> "A", ORQ_EVENT_URL |-> "http://orq",
                      ZONA_SEGURA_INTERVALO_SEGUNDOS |-> Algo(60)],
                     RegistroEstadoZona)

\* zones that replace the stored one, enabled and disabled
BodiesEstadoZona ==
  {[BodyZonaBase EXCEPT !.forzarSobreEscritura = TRUE, !.activo = Algo(a)] :
     a \in BOOLEAN}

\* the sweep waits for the position of the vehicle
BarridoEsperaA(vehiculoId) ==
  barrido.pc = "posicion" /\ barrido.vehiculoId = vehiculoId

\* a step of a request on the vehicle
PasoPeticion(vehiculoId) ==
  \/ \E body \in BodiesEstadoZona : PostZonaSegura(vehiculoId, body)
  \/ \E r \in enVuelo, pos \in ResultadosPosicion(LatitudesRegistro) :
       r.vehiculoId = vehiculoId /\ PostZonaSegura_posicion(r, pos)
  \/ PostZonaSeguraDesactivar(vehiculoId)
  \/ PostInactivar(vehiculoId, "impago")
  \/ PostReactivar(vehiculoId)

\* requests on a vehicle run while no sweep waits for that vehicle's position
NextEstadoZona ==
  \/ \E id \in IdsPeticion2 : ~BarridoEsperaA(id) /\ PasoPeticion(id)
  \/ \E ahoraLocal \in Ahoras : Barrido(ahoraLocal)
  \/ \E pos \in ResultadosPosicion(Latitudes) : Barrido_posicion(pos)
  \/ \E entregado \in BOOLEAN : Barrido_post(entregado)

SpecEstadoZona == InitEstadoZona /\ [][NextEstadoZona]_vars

\* C39: in A, when the requests on a vehicle do not run while a sweep waits
\* for that vehicle's position, every vehicle with no zone or with a disabled
\* zone has geofence state 'desconocido' (a missing entry counts as such), so
\* 'dentro', 'fuera' and 'fuera_horario' belong to vehicles with an enabled zone.
C39_EstadoSoloConZonaActiva ==
  \A i \in 1..Len(VEHICULOS) :
    LET zonaSegura == VEHICULOS[i].v.zonaSegura IN
    (EsNulo(zonaSegura) \/ ~Val(zonaSegura).activo)
      => EstadoZonaDe(ESTADO_ZONA, VEHICULOS[i].id) = "desconocido"

\* c2 got a zone that was then disabled by DeactivateZone, while c1 is 'fuera'
C39_Witness ==
  /\ salida.tipo = "res" /\ salida.ruta = "zona-segura/desactivar"
  /\ salida.vehiculoId = "c2" /\ salida.status = 200 /\ salida.cuerpo.ok
  /\ ~EsNulo(Obtener(VEHICULOS, "c2").zonaSegura)
  /\ ~Val(Obtener(VEHICULOS, "c2").zonaSegura).activo
  /\ EstadoZonaDe(ESTADO_ZONA, "c2") = "desconocido"
  /\ EstadoZonaDe(ESTADO_ZONA, "c1") = "fuera"

---------------------------------------------------------------------------
(* Progress of the sweep towards the breach notification, implementation A *)

\* the vehicle has left the zone for good: from the last instant of the clock
\* on, every position the provider reports is outside the internal radius
Salio == reloj = MaxReloj

\* what the provider answers to a position lookup
PosicionesVivo ==
  IF Salio THEN ResultadosPosicion({600}) ELSE ResultadosPosicion(Latitudes)

\* the provider answered with a position
ConPosicion(pos) == ~pos.error /\ ~EsNulo(pos.position)

TicBarrido == \E ahoraLocal \in AhorasEnVentana : Barrido(ahoraLocal)

TicBarrido2 == \E ahoraLocal \in AhorasEnVentana : Barrido2(ahoraLocal)

RespuestaPosicion == \E pos \in PosicionesVivo : Barrido_posicion(pos)

RespuestaPosicion2 == \E pos \in PosicionesVivo : Barrido2_posicion(pos)

\* the provider answered a lookup for c1 with a position
RespuestaConPosicion ==
  /\ barrido.pc = "posicion" /\ barrido.vehiculoId = "c1"
  /\ \E pos \in PosicionesVivo : ConPosicion(pos) /\ Barrido_posicion(pos)

RespuestaConPosicion2 ==
  /\ barrido2.pc = "posicion" /\ barrido2.vehiculoId = "c1"
  /\ \E pos \in PosicionesVivo : ConPosicion(pos) /\ Barrido2_posicion(pos)

RespuestaPost == \E entregado \in BOOLEAN : Barrido_post(entregado)

RespuestaPost2 == \E entregado \in BOOLEAN : Barrido2_post(entregado)

\* the process started with vehiculos.json holding c1 and c2, both active,
\* with a device and an enabled zone; no request changes them afterwards
InitVivo ==
  ArranqueConArchivo(
    [impl |-> "A", ORQ_EVENT_URL |-> "http://orq", ZONA_SEGURA_INTERVALO_SEGUNDOS |-> Algo(60)],
    RegistroInicial("A"))

NextVivo ==
  \/ Tic
  \/ TicBarrido
  \/ RespuestaPosicion
  \/ RespuestaPost
  \/ TicBarrido2
  \/ RespuestaPosicion2
  \/ RespuestaPost2

\* setInterval keeps firing, the provider answers every lookup and every
\* POST, and lookups for c1 that are made again and again eventually give a
\* position
SpecVivo ==
  /\ InitVivo /\ [][NextVivo]_vars
  /\ WF_vars(TicBarrido) /\ WF_vars(TicBarrido2)
  /\ WF_vars(RespuestaPosicion) /\ WF_vars(RespuestaPosicion2)
  /\ WF_vars(RespuestaPost) /\ WF_vars(RespuestaPost2)
  /\ SF_vars(RespuestaConPosicion) /\ SF_vars(RespuestaConPosicion2)

\* C40: in A with a positive interval, when the state of an active vehicle
\* with a device and an enabled zone is 'dentro' and the vehicle has left its
\* internal radius for good, inside the window, some sweep eventually stores
\* 'fuera' for it and attempts the breach notification.
C40_SalidaAcabaNotificada ==
  (Salio /\ EstadoZonaDe(ESTADO_ZONA, "c1") = "dentro")
    ~> (/\ EstadoZonaDe(ESTADO_ZONA, "c1") = "fuera"
        /\ salida.tipo = "evento"
        /\ salida.vehiculoId = "c1")

====
